---- MODULE Spec2Model ----
(***************************************************************************)
(* Verification model of gptcmd (codeofdusk/gptcmd).                       *)
(*                                                                         *)
(* Spec       : the MessageThread API of src/gptcmd/message.py, one        *)
(*              thread, every public mutator as one action.                *)
(***************************************************************************)
EXTENDS Integers, Sequences, FiniteSets, TLC

(***************************************************************************)
(* Bounds                                                                  *)
(***************************************************************************)
\* longest message list a thread of Spec holds
MaxLen == 3
\* index arguments of Spec range over -MaxIdx .. MaxIdx (and None)
MaxIdx == 2

(***************************************************************************)
(* State                                                                   *)
(***************************************************************************)
\* Spec: one MessageThread and the method call made on it
VARIABLES
    messages,   \* MessageThread._messages
    names,      \* MessageThread.names
    dirty,      \* MessageThread.dirty
    pc,         \* "ready": no call in progress; "returned": a call has
                \* returned and its caller holds the outcome
    call,       \* the method called and its arguments
    pre,        \* _messages and dirty when the call was entered
    ret,        \* the value the call returned
    err         \* the exception the call raised

\* SerialSpec: a thread on its way through to_dict and from_dict
VARIABLES
    serPhase,   \* "thread", "saved", "loaded" or "failed"
    original,   \* the thread to_dict is called on (<<>>: none, the
                \* record was written by hand)
    record,     \* the dict to_dict returned, or a hand-written one
    restored    \* the thread from_dict built from record

\* ShellSpec: the Gptcmd shell; Python objects that can be shared live in
\* heaps and are named by their position there
VARIABLES
    threadObjs, \* the MessageThread objects: name, _messages, names (a
                \* position in nameDicts) and dirty; the messages hold
                \* positions in attLists and metaDicts
    threads,    \* Gptcmd._threads: thread name -> position in threadObjs
    current,    \* Gptcmd._current_thread, a position in threadObjs
    nameDicts,  \* the dict objects used as MessageThread.names
    attLists,   \* the list objects used as Message.attachments
    metaDicts,  \* the dict objects used as Message.metadata
    cmd,        \* the command the shell ran last
    cmdArg,     \* the thread name given to it, for the thread command; how
                \* the wait for the response ended, for send
    ncmds,      \* how many commands the shell has run
    file,       \* the "threads" entry of the JSON file written last: thread
                \* name -> position in threadObjs of the thread written
                \* under that name (empty: nothing has been written)
    last_path,  \* Gptcmd.last_path
    session     \* "running": cmdloop reads commands; "sending": do_retry
                \* is about to call do_send; "raised": a command raised
                \* and the exception left cmdloop; "exited": main has
                \* handled the exception

\* RangeSpec: one call of Gptcmd._user_range_to_python_range
VARIABLES
    rangePc,    \* "idle", "called" or "done"
    rangeArgs,  \* the arguments: tokens of ref, allow_single, strict_range
    rangeOut    \* what the call returned or raised

\* FormatSpec: one expansion of a replacement field by _MacroFormatter
VARIABLES
    fmtPc,      \* "idle", "called" or "done"
    fmtArgs,    \* the field name, the macro's arguments and the names bound
    fmtOut      \* the text the field expands to, or the error raised

\* SendSpec: the cost accounting of the session, which do_send updates,
\* and the response of the last send
VARIABLES
    _session_cost_in_cents,     \* Gptcmd._session_cost_in_cents
    _session_cost_incomplete,   \* Gptcmd._session_cost_incomplete
    _stream                     \* the chunks of the response that the last
                                \* do_send took from res before it ended

\* ParamSpec: the API parameters of an LLMProvider
VARIABLES
    _api_params,    \* LLMProvider._api_params
    apiCall         \* the last call of set_api_param, unset_api_param or
                    \* update_api_params: its arguments and what it raised

\* RenderSpec: one call of MessageThread.render
VARIABLES
    renderArgs,     \* the messages of the thread and the arguments
    renderOut       \* the lines returned

\* WorkerSpec: the executor that do_send submits provider.complete to
VARIABLES
    _future_executor    \* the calls submitted and not yet finished, first
                        \* the one the worker runs

\* MacroSpec: the macro runner of the shell (macros.py) and the lines
\* typed at the prompt that name a macro
VARIABLES
    stack,          \* the calls of MacroRunner.run in progress, outermost
                    \* first: the macro's name, the number of the line
                    \* it is at, args, the first map of env and what
                    \* _depth was when run was called
    _depth,         \* MacroRunner._depth
    _active_macros, \* MacroRunner._active_macros
    log,            \* the lines the runner has passed to onecmd or to a
                    \* directive: the macro, the number of the line, to
                    \* ("onecmd" or "directive") and the words passed
    printed,        \* the errors _run_macro has printed: the macro, the
                    \* line number (0: none) and the message
    result,         \* "none", or what the _run_macro that returned last
                    \* gave its caller: "stop" (True) or "continue" (False)
    macroPc,        \* "prompt": cmdloop waits for a line; "running": a
                    \* line is being run; "stopped": cmdloop has ended
    nruns,          \* how many lines have been typed at the prompt
    _shell          \* what the built-in names read of the shell: the name
                    \* of the current thread ("": detached), the name of
                    \* _account and the provider's model of each account

(***************************************************************************)
(* Python values                                                           *)
(***************************************************************************)
\* None where a string is expected (Optional[str])
None == "None"
\* Optional[int]: None is the empty tuple, the integer n is <<n>>
NoneInt == <<>>

Some(n) == <<n>>

\* no exception raised
NoError == "NoError"

Max(a, b) == IF a >= b THEN a ELSE b

Min(a, b) == IF a <= b THEN a ELSE b

\* class MessageRole(StrEnum)
MessageRole == {"user", "assistant", "system"}

\* @dataclass Message; attachments and metadata default to empty
Message(content, role, name, sticky) ==
    [content |-> content, role |-> role, name |-> name, sticky |-> sticky,
     attachments |-> <<>>, metadata |-> <<>>]

(***************************************************************************)
(* Python list primitives used by MessageThread                            *)
(***************************************************************************)
\* s[n] does not raise IndexError
ValidIndex(s, n) == n >= -Len(s) /\ n < Len(s)

\* 1-based position of Python index n in s
Pos(s, n) == IF n < 0 THEN n + Len(s) + 1 ELSE n + 1

\* s without its element at 1-based position p
RemoveAt(s, p) == SubSeq(s, 1, p - 1) \o SubSeq(s, p + 1, Len(s))

\* list.insert(j, x): j is clamped into 0 .. len(s), negative j counts
\* from the end
ListInsert(s, j, x) ==
    LET k == IF j < 0 THEN Max(j + Len(s), 0) ELSE Min(j, Len(s))
    IN  SubSeq(s, 1, k) \o <<x>> \o SubSeq(s, k + 1, Len(s))

\* a slice bound b (Optional[int]) of a list of length n, as Python
\* normalises it
SliceBound(n, b, default) ==
    IF b = NoneInt THEN default
    ELSE IF b[1] < 0 THEN Max(b[1] + n, 0) ELSE Min(b[1], n)

\* 1-based positions selected by s[start:end]
SliceRange(s, start, end) ==
    { p \in 1..Len(s) : /\ p > SliceBound(Len(s), start, 0)
                        /\ p <= SliceBound(Len(s), end, Len(s)) }

\* the elements of s at the positions P, in order
Pick(s, P) ==
    LET F[i \in 0..Len(s)] ==
            IF i = 0 THEN <<>>
            ELSE IF i \in P THEN Append(F[i - 1], s[i]) ELSE F[i - 1]
    IN  F[Len(s)]

(***************************************************************************)
(* MessageThread methods.  Each takes the message list and dirty flag and  *)
(* yields the list and flag after the call, the value returned (a tuple of *)
(* messages: empty for None, one message for pop/move) and the exception   *)
(* raised.                                                                 *)
(***************************************************************************)
Outcome(msgs, d, r, e) == [messages |-> msgs, dirty |-> d, ret |-> r, err |-> e]

\* MessageThread.stickys
stickys(msgs) == SelectSeq(msgs, LAMBDA m : m.sticky)

\* pop without the sticky test
pop_NoStickyCheck(msgs, d, n) ==
    LET k == IF n = NoneInt THEN -1 ELSE n[1]
    IN  IF ~ValidIndex(msgs, k)
        THEN Outcome(msgs, d, <<>>, "IndexError")
        ELSE Outcome(RemoveAt(msgs, Pos(msgs, k)), TRUE,
                     <<msgs[Pos(msgs, k)]>>, NoError)

\* pop that marks the thread dirty before it looks the message up
pop_DirtyFirst(msgs, d, n) ==
    LET k == IF n = NoneInt THEN -1 ELSE n[1]
    IN  IF ~ValidIndex(msgs, k)
        THEN Outcome(msgs, TRUE, <<>>, "IndexError")
        ELSE IF msgs[Pos(msgs, k)].sticky
        THEN Outcome(msgs, TRUE, <<>>, "PopStickyMessageError")
        ELSE Outcome(RemoveAt(msgs, Pos(msgs, k)), TRUE,
                     <<msgs[Pos(msgs, k)]>>, NoError)

\* MessageThread.pop
pop(msgs, d, n) ==
    LET k == IF n = NoneInt THEN -1 ELSE n[1]
    IN  IF ~ValidIndex(msgs, k)
        THEN Outcome(msgs, d, <<>>, "IndexError")
        ELSE IF msgs[Pos(msgs, k)].sticky
        THEN Outcome(msgs, d, <<>>, "PopStickyMessageError")
        ELSE Outcome(RemoveAt(msgs, Pos(msgs, k)), TRUE,
                     <<msgs[Pos(msgs, k)]>>, NoError)

\* clear that drops the sticky messages too
clear_Everything(msgs, d) ==
    Outcome(<<>>, IF msgs # <<>> THEN TRUE ELSE d, <<>>, NoError)

\* MessageThread.clear
clear(msgs, d) ==
    Outcome(stickys(msgs), IF msgs # <<>> THEN TRUE ELSE d, <<>>, NoError)

\* move that inserts at j before it removes the message at i
move_InsertFirst(msgs, d, i, j) ==
    LET p == pop(msgs, d, i)
        k == IF i = NoneInt THEN -1 ELSE i[1]
        at == IF j = NoneInt THEN Len(msgs) ELSE j[1]
        to == IF at < 0 THEN Max(at + Len(msgs), 0) ELSE Min(at, Len(msgs))
        grown == ListInsert(msgs, at, p.ret[1])
    IN  IF p.err # NoError THEN p
        ELSE Outcome(RemoveAt(grown, IF to < Pos(msgs, k)
                                     THEN Pos(msgs, k) + 1
                                     ELSE Pos(msgs, k)),
                     p.dirty, p.ret, NoError)

\* MessageThread.move
move(msgs, d, i, j) ==
    LET p == pop(msgs, d, i)
    IN  IF p.err # NoError THEN p
        ELSE Outcome(ListInsert(p.messages,
                                IF j = NoneInt THEN Len(p.messages) ELSE j[1],
                                p.ret[1]),
                     p.dirty, p.ret, NoError)

\* rename without the sticky test
rename_StickyToo(msgs, d, role, name, start, end) ==
    LET hit == { p \in SliceRange(msgs, start, end) : msgs[p].role = role }
        new == [p \in 1..Len(msgs) |->
                    IF p \in hit THEN [msgs[p] EXCEPT !.name = name]
                    ELSE msgs[p]]
    IN  Outcome(new, IF hit # {} THEN TRUE ELSE d, Pick(new, hit), NoError)

\* rename without the role test
rename_AnyRole(msgs, d, role, name, start, end) ==
    LET hit == { p \in SliceRange(msgs, start, end) : ~msgs[p].sticky }
        new == [p \in 1..Len(msgs) |->
                    IF p \in hit THEN [msgs[p] EXCEPT !.name = name]
                    ELSE msgs[p]]
    IN  Outcome(new, IF hit # {} THEN TRUE ELSE d, Pick(new, hit), NoError)

\* MessageThread.rename
rename(msgs, d, role, name, start, end) ==
    LET hit == { p \in SliceRange(msgs, start, end) :
                    msgs[p].role = role /\ ~msgs[p].sticky }
        new == [p \in 1..Len(msgs) |->
                    IF p \in hit THEN [msgs[p] EXCEPT !.name = name]
                    ELSE msgs[p]]
    IN  Outcome(new, IF hit # {} THEN TRUE ELSE d, Pick(new, hit), NoError)

\* sticky that records every message of the range as affected
sticky_RecordAll(msgs, d, start, end, state) ==
    LET hit == SliceRange(msgs, start, end)
        new == [p \in 1..Len(msgs) |->
                    IF p \in hit THEN [msgs[p] EXCEPT !.sticky = state]
                    ELSE msgs[p]]
    IN  Outcome(new, IF hit # {} THEN TRUE ELSE d, Pick(new, hit), NoError)

\* MessageThread.sticky
sticky(msgs, d, start, end, state) ==
    LET hit == { p \in SliceRange(msgs, start, end) : msgs[p].sticky # state }
        new == [p \in 1..Len(msgs) |->
                    IF p \in hit THEN [msgs[p] EXCEPT !.sticky = state]
                    ELSE msgs[p]]
    IN  Outcome(new, IF hit # {} THEN TRUE ELSE d, Pick(new, hit), NoError)

\* append that keeps the name the caller set
append_KeepName(msgs, d, nm, message) ==
    Outcome(Append(msgs, message), TRUE, <<>>, NoError)

\* dict.get(key): None when the key is absent
Get(dict, key) == IF key \in DOMAIN dict THEN dict[key] ELSE None

\* MessageThread.append; nm is the thread's name map
append(msgs, d, nm, message) ==
    Outcome(Append(msgs, [message EXCEPT !.name = Get(nm, message.role)]),
            TRUE, <<>>, NoError)

(***************************************************************************)
(* Inputs of Spec                                                          *)
(***************************************************************************)
OptIdx == {NoneInt} \cup { Some(n) : n \in -MaxIdx..MaxIdx }

\* slice bounds handed to rename and sticky: start_index is absent, the
\* first or the second message; end_index is absent, the last message or
\* the largest index
StartBound == {NoneInt, Some(0), Some(1)}

EndBound == {NoneInt, Some(-1), Some(MaxIdx)}

\* the name a thread's name map gives, and rename sets
ThreadNames == {None, "A"}

\* the (content, role) pairs of the messages a caller builds
Drafts == { <<"a", "user">>, <<"b", "assistant">> }

\* messages handed to append: the caller may have set a name of its own
NewMessages ==
    { Message(cr[1], cr[2], n, s) :
        cr \in Drafts, n \in {None, "B"}, s \in BOOLEAN }

\* messages handed to the constructor: user messages with and without a
\* name, assistant messages without one
InitMessages ==
    { Message("a", "user", n, s) : n \in ThreadNames, s \in BOOLEAN }
        \cup { Message("b", "assistant", None, s) : s \in BOOLEAN }

SeqsUpTo(S, n) == UNION { [1..k -> S] : k \in 0..n }

\* name maps handed to the constructor: {user: "A"} has an entry for one
\* role and none for the others
NameMaps == { [r \in {"user"} |-> "A"] }

(***************************************************************************)
(* One thread under the MessageThread API (Spec)                            *)
(***************************************************************************)
storeVars == <<messages, names, dirty, pc, call, pre, ret, err>>

serialVars == <<serPhase, original, record, restored>>

\* the shell variables the commands on messages leave alone
saveVars == <<file, last_path, session>>

shellVars ==
    <<threadObjs, threads, current, nameDicts, attLists, metaDicts, cmd,
      cmdArg, ncmds, saveVars>>

rangeVars == <<rangePc, rangeArgs, rangeOut>>

macroVars ==
    <<stack, _depth, _active_macros, log, printed, result, macroPc, nruns,
      _shell>>

formatVars == <<fmtPc, fmtArgs, fmtOut>>

costVars == <<_session_cost_in_cents, _session_cost_incomplete, _stream>>

paramVars == <<_api_params, apiCall>>

renderVars == <<renderArgs, renderOut>>

workerVars == <<_future_executor>>

callVars == <<paramVars, renderVars, workerVars>>

vars ==
    <<storeVars, serialVars, shellVars, rangeVars, macroVars, formatVars,
      costVars, callVars>>

\* the variables Spec leaves alone
nonStoreVars ==
    <<serialVars, shellVars, rangeVars, macroVars, formatVars, costVars,
      callVars>>

\* the variables SerialSpec leaves alone
nonSerialVars ==
    <<storeVars, shellVars, rangeVars, macroVars, formatVars, costVars,
      callVars>>

NoCall ==
    [op |-> "none", i |-> NoneInt, j |-> NoneInt, role |-> None,
     name |-> None, state |-> FALSE, message |-> <<>>]

NoPre == [messages |-> <<>>, dirty |-> FALSE]

\* MessageThread.__init__: dirty is False whatever the messages are
InitStore ==
    /\ messages \in SeqsUpTo(InitMessages, MaxLen)
    /\ names \in NameMaps
    /\ dirty = FALSE
    /\ pc = "ready"
    /\ call = NoCall
    /\ pre = NoPre
    /\ ret = <<>>
    /\ err = NoError

\* the call c runs to completion with outcome out
Invoke(c, out) ==
    /\ pc = "ready"
    /\ pc' = "returned"
    /\ call' = c
    /\ pre' = [messages |-> messages, dirty |-> dirty]
    /\ messages' = out.messages
    /\ dirty' = out.dirty
    /\ ret' = out.ret
    /\ err' = out.err
    /\ UNCHANGED names
    /\ UNCHANGED nonStoreVars

CallPop ==
    \E n \in OptIdx :
        Invoke([NoCall EXCEPT !.op = "pop", !.i = n], pop(messages, dirty, n))

CallClear ==
    Invoke([NoCall EXCEPT !.op = "clear"], clear(messages, dirty))

CallMove ==
    \E i \in OptIdx, j \in OptIdx :
        Invoke([NoCall EXCEPT !.op = "move", !.i = i, !.j = j],
               move(messages, dirty, i, j))

CallRename ==
    \E role \in {"user", "assistant"}, name \in ThreadNames,
       start \in StartBound, end \in EndBound :
        Invoke([NoCall EXCEPT !.op = "rename", !.role = role, !.name = name,
                              !.i = start, !.j = end],
               rename(messages, dirty, role, name, start, end))

CallSticky ==
    \E start \in StartBound, end \in EndBound, state \in BOOLEAN :
        Invoke([NoCall EXCEPT !.op = "sticky", !.i = start, !.j = end,
                              !.state = state],
               sticky(messages, dirty, start, end, state))

CallAppend ==
    \E m \in NewMessages :
        /\ Len(messages) < MaxLen
        /\ Invoke([NoCall EXCEPT !.op = "append", !.message = <<m>>],
                  append(messages, dirty, names, m))

\* the caller takes the outcome; the thread is ready for the next call
Return ==
    /\ pc = "returned"
    /\ pc' = "ready"
    /\ call' = NoCall
    /\ pre' = NoPre
    /\ ret' = <<>>
    /\ err' = NoError
    /\ UNCHANGED <<messages, names, dirty>>
    /\ UNCHANGED nonStoreVars

\* the serialisation variables while no serialisation is modelled
SerialIdle ==
    /\ serPhase = "idle"
    /\ original = <<>>
    /\ record = <<>>
    /\ restored = <<>>

\* the thread variables of Spec while no thread API call is modelled
StoreIdle ==
    /\ messages = <<>>
    /\ names = <<>>
    /\ dirty = FALSE
    /\ pc = "idle"
    /\ call = NoCall
    /\ pre = NoPre
    /\ ret = <<>>
    /\ err = NoError

\* the shell variables while no shell is modelled
ShellIdle ==
    /\ threadObjs = <<>>
    /\ threads = <<>>
    /\ current = 0
    /\ nameDicts = <<>>
    /\ attLists = <<>>
    /\ metaDicts = <<>>
    /\ cmd = "none"
    /\ cmdArg = ""
    /\ ncmds = 0
    /\ file = <<>>
    /\ last_path = None
    /\ session = "idle"

\* the variables of RangeSpec while no call is modelled
RangeIdle ==
    /\ rangePc = "idle"
    /\ rangeArgs = <<>>
    /\ rangeOut = <<>>

\* the variables of MacroSpec while no macro runner is modelled
MacroIdle ==
    /\ stack = <<>>
    /\ _depth = 0
    /\ _active_macros = {}
    /\ log = <<>>
    /\ printed = <<>>
    /\ result = "none"
    /\ macroPc = "idle"
    /\ nruns = 0
    /\ _shell = <<>>

\* the cost accounting of a session that has sent nothing
CostIdle ==
    /\ _session_cost_in_cents = 0
    /\ _session_cost_incomplete = FALSE
    /\ _stream = <<>>

\* a provider without parameters, no call of render and an executor
\* without work
CallsIdle ==
    /\ _api_params = <<>>
    /\ apiCall = <<>>
    /\ renderArgs = <<>>
    /\ renderOut = <<>>
    /\ _future_executor = <<>>

\* the variables of FormatSpec while no expansion is modelled
FormatIdle ==
    /\ fmtPc = "idle"
    /\ fmtArgs = <<>>
    /\ fmtOut = <<>>

Init ==
    /\ InitStore
    /\ SerialIdle
    /\ ShellIdle
    /\ RangeIdle
    /\ MacroIdle
    /\ FormatIdle
    /\ CostIdle
    /\ CallsIdle

Next ==
    \/ CallPop
    \/ CallClear
    \/ CallMove
    \/ CallRename
    \/ CallSticky
    \/ CallAppend
    \/ Return

Spec == Init /\ [][Next]_vars

(***************************************************************************)
(* Properties of the MessageThread API (Spec).  They are stated over the   *)
(* state a call leaves behind: pre is the thread at entry, call the        *)
(* method and arguments, messages/dirty/ret/err the result.                *)
(***************************************************************************)
Returned(op) == pc = "returned" /\ call.op = op

\* the Python index an Optional[int] argument of pop/move denotes
IndexOf(n) == IF n = NoneInt THEN -1 ELSE n[1]

\* the message the index argument n of pop/move denotes exists in s
Exists(s, n) == IndexOf(n) >= -Len(s) /\ IndexOf(n) <= Len(s) - 1

\* 1-based position of that message
Target(s, n) ==
    IF IndexOf(n) >= 0 THEN IndexOf(n) + 1 ELSE Len(s) + 1 + IndexOf(n)

\* position p (1-based) of a list of length n lies in the half-open range
\* start:end, negative bounds counting from the end
InRange(p, n, start, end) ==
    LET lo == IF start = NoneInt THEN 0
              ELSE IF start[1] < 0 THEN start[1] + n ELSE start[1]
        hi == IF end = NoneInt THEN n
              ELSE IF end[1] < 0 THEN end[1] + n ELSE end[1]
    IN  p - 1 >= lo /\ p - 1 < hi

\* s restricted to the positions that satisfy Keep, in order
Filter(s, Keep(_)) ==
    LET F[i \in 0..Len(s)] ==
            IF i = 0 THEN <<>>
            ELSE IF Keep(i) THEN F[i - 1] \o <<s[i]>> ELSE F[i - 1]
    IN  F[Len(s)]

\* s without position p
Without(s, p) == Filter(s, LAMBDA q : q # p)

\* the sticky messages of s, in order
StickyPart(s) == Filter(s, LAMBDA q : s[q].sticky)

\* C1: pop, move and clear never remove a sticky message: pop(n) and
\* move(i, j) aimed at a sticky message raise PopStickyMessageError and
\* leave the message list as it was, and after pop, move or clear the
\* sticky messages of the thread are those it had before, in the same order.
C1_StickyNeverRemoved ==
    /\ (/\ pc = "returned"
        /\ call.op \in {"pop", "move"}
        /\ Exists(pre.messages, call.i)
        /\ pre.messages[Target(pre.messages, call.i)].sticky)
       => (err = "PopStickyMessageError" /\ messages = pre.messages)
    /\ (pc = "returned" /\ call.op \in {"pop", "move", "clear"})
       => StickyPart(messages) = StickyPart(pre.messages)

\* C1 witness: move aimed at a sticky message of a thread that also holds
\* other messages was refused.
C1_Witness ==
    /\ Returned("move")
    /\ Len(pre.messages) = 3
    /\ err = "PopStickyMessageError"
    /\ \E p \in 1..3 : ~pre.messages[p].sticky

\* the call is aimed at a sticky message: pop/move at the indexed message,
\* clear at every message, rename at the messages of the role in the range
AimedAtSticky ==
    LET s == pre.messages
    IN  CASE call.op \in {"pop", "move"} ->
                Exists(s, call.i) /\ s[Target(s, call.i)].sticky
          [] call.op = "clear" -> \E p \in 1..Len(s) : s[p].sticky
          [] call.op = "rename" ->
                \E p \in 1..Len(s) :
                    /\ InRange(p, Len(s), call.i, call.j)
                    /\ s[p].role = call.role
                    /\ s[p].sticky
          [] OTHER -> FALSE

\* C2 as stated: pop, clear, move and rename aimed at a sticky message all
\* refuse with an error.
C2_Original ==
    (pc = "returned" /\ AimedAtSticky) => err # NoError

\* C2 amended: pop and move aimed at a sticky message refuse with
\* PopStickyMessageError and change nothing; clear and rename raise no
\* error: they skip the sticky messages, which stay in the thread, in
\* order, with the name they had.
C2_StickyRefusedOrSkipped ==
    (pc = "returned" /\ AimedAtSticky) =>
        /\ call.op \in {"pop", "move"} =>
              /\ err = "PopStickyMessageError"
              /\ messages = pre.messages
              /\ dirty = pre.dirty
              /\ ret = <<>>
        /\ call.op = "clear" =>
              /\ err = NoError
              /\ messages = StickyPart(pre.messages)
        /\ call.op = "rename" =>
              /\ err = NoError
              /\ Len(messages) = Len(pre.messages)
              /\ \A p \in 1..Len(messages) :
                    pre.messages[p].sticky =>
                        messages[p] = pre.messages[p]
              /\ Len(ret) = Cardinality(
                    { p \in 1..Len(messages) :
                        /\ InRange(p, Len(messages), call.i, call.j)
                        /\ pre.messages[p].role = call.role
                        /\ ~pre.messages[p].sticky })

\* C2 witness: rename over a range that holds a sticky and a non-sticky
\* message of the role renamed one message and raised nothing.
C2_Witness ==
    /\ Returned("rename")
    /\ AimedAtSticky
    /\ Len(ret) = 1
    /\ err = NoError
    /\ messages # pre.messages

\* C3: clear() leaves exactly the sticky messages of the thread, in their
\* original relative order (none when no message is sticky).
C3_ClearKeepsStickySubsequence ==
    Returned("clear") =>
        /\ err = NoError
        /\ messages = StickyPart(pre.messages)
        /\ ((\A p \in 1..Len(pre.messages) : ~pre.messages[p].sticky)
              => messages = <<>>)

\* C3 witness: clear on [user a, assistant b (sticky), user a] left
\* [assistant b].
C3_Witness ==
    /\ Returned("clear")
    /\ Len(pre.messages) = 3
    /\ ~pre.messages[1].sticky
    /\ pre.messages[2].sticky
    /\ ~pre.messages[3].sticky
    /\ pre.messages[1].role = "user"
    /\ pre.messages[2].role = "assistant"
    /\ messages = <<pre.messages[2]>>

\* C4: pop(index), index defaulting to the last position, removes exactly
\* the (non-sticky) message at the index, returns it, keeps the other
\* messages in order and sets dirty; when there is no message at the index
\* it raises IndexError and leaves the message list and dirty as they were.
C4_PopRemovesOrIndexError ==
    Returned("pop") =>
        LET s == pre.messages
            t == Target(s, call.i)
        IN  /\ (Exists(s, call.i) /\ ~s[t].sticky) =>
                  /\ err = NoError
                  /\ ret = <<s[t]>>
                  /\ Len(messages) = Len(s) - 1
                  /\ \A q \in 1..Len(messages) :
                        messages[q] = IF q < t THEN s[q] ELSE s[q + 1]
                  /\ dirty
                  /\ (call.i = NoneInt => t = Len(s))
            /\ ~Exists(s, call.i) =>
                  /\ err = "IndexError"
                  /\ ret = <<>>
                  /\ messages = s
                  /\ dirty = pre.dirty

\* C4 witness: pop() on an empty, clean thread raised IndexError.
C4_Witness ==
    /\ Returned("pop")
    /\ call.i = NoneInt
    /\ pre.messages = <<>>
    /\ ~pre.dirty
    /\ err = "IndexError"

\* C4 second case reached: pop(1) took the middle message of three.
C4_WitnessRemoved ==
    /\ Returned("pop")
    /\ call.i = Some(1)
    /\ Len(pre.messages) = 3
    /\ err = NoError
    /\ ret = <<pre.messages[2]>>

\* the list obtained by putting x at Python position j of s (None: at the
\* end), as list.insert places it
InsertedAt(s, j, x) ==
    LET at == IF j = NoneInt THEN Len(s)
              ELSE IF j[1] < 0 THEN Max(0, Len(s) + j[1])
              ELSE Min(j[1], Len(s))
    IN  [q \in 1..(Len(s) + 1) |->
            IF q <= at THEN s[q] ELSE IF q = at + 1 THEN x ELSE s[q - 1]]

\* C5: move(i, j) gives the list and return value of pop(i) followed by
\* inserting the popped message at position j of the shorter list (None:
\* at the end): the length is unchanged, the moved message is returned,
\* and the other messages keep their relative order; when pop(i) fails,
\* move fails the same way and changes nothing.
C5_MoveIsPopThenInsert ==
    Returned("move") =>
        LET s == pre.messages
            t == Target(s, call.i)
        IN  /\ (Exists(s, call.i) /\ ~s[t].sticky) =>
                  /\ err = NoError
                  /\ ret = <<s[t]>>
                  /\ messages = InsertedAt(Without(s, t), call.j, s[t])
                  /\ Len(messages) = Len(s)
                  /\ \E q \in 1..Len(messages) :
                        /\ messages[q] = s[t]
                        /\ Without(messages, q) = Without(s, t)
                  /\ dirty
            /\ ~(Exists(s, call.i) /\ ~s[t].sticky) =>
                  /\ err = (IF Exists(s, call.i) THEN "PopStickyMessageError"
                            ELSE "IndexError")
                  /\ ret = <<>>
                  /\ messages = s
                  /\ dirty = pre.dirty

\* C5 witness: move(0, 2) on three pairwise different messages took the
\* first message to the end.
C5_Witness ==
    /\ Returned("move")
    /\ call.i = Some(0)
    /\ call.j = Some(2)
    /\ Len(pre.messages) = 3
    /\ pre.messages[1] # pre.messages[2]
    /\ pre.messages[2] # pre.messages[3]
    /\ pre.messages[1] # pre.messages[3]
    /\ messages = <<pre.messages[2], pre.messages[3], pre.messages[1]>>

\* C6: rename(role, name, start, end) sets the name (None clears it) on
\* exactly the non-sticky messages of the role in the half-open range,
\* returns exactly those messages, leaves every other message as it was,
\* raises nothing, sets dirty when it returns a non-empty list and leaves
\* dirty as it was otherwise.
C6_RenameExactlyNonStickyOfRole ==
    Returned("rename") =>
        LET s == pre.messages
            Hit(p) == /\ InRange(p, Len(s), call.i, call.j)
                      /\ s[p].role = call.role
                      /\ ~s[p].sticky
        IN  /\ err = NoError
            /\ Len(messages) = Len(s)
            /\ \A p \in 1..Len(s) :
                  /\ Hit(p) => /\ messages[p].name = call.name
                               /\ messages[p].content = s[p].content
                               /\ messages[p].role = s[p].role
                               /\ messages[p].sticky = s[p].sticky
                  /\ ~Hit(p) => messages[p] = s[p]
            /\ ret = Filter(messages, Hit)
            /\ dirty = (IF ret # <<>> THEN TRUE ELSE pre.dirty)

\* C6 witness: rename(user, None, 0, 2) on [user a named "A", assistant b,
\* user a named "A"] cleared the name of message 0 only and returned one
\* message.
C6_Witness ==
    /\ Returned("rename")
    /\ call.role = "user"
    /\ call.name = None
    /\ call.i = Some(0)
    /\ call.j = Some(2)
    /\ Len(pre.messages) = 3
    /\ pre.messages[1].role = "user" /\ pre.messages[1].name = "A"
    /\ pre.messages[2].role = "assistant"
    /\ pre.messages[3].role = "user" /\ pre.messages[3].name = "A"
    /\ ~pre.messages[1].sticky
    /\ Len(ret) = 1
    /\ messages[1].name = None
    /\ messages[3].name = "A"

\* C7: sticky(start, end, state) never fails; afterwards every message of
\* the range has sticky = state and nothing else changed, the returned
\* list is exactly the messages whose flag differed before the call, dirty
\* is set only when that list is non-empty, and the same call made again
\* at once returns an empty list and changes nothing.
C7_StickySetsRangeIdempotent ==
    Returned("sticky") =>
        LET s == pre.messages
            In(p) == InRange(p, Len(s), call.i, call.j)
            Differed(p) == In(p) /\ s[p].sticky # call.state
            again == sticky(messages, dirty, call.i, call.j, call.state)
        IN  /\ err = NoError
            /\ Len(messages) = Len(s)
            /\ \A p \in 1..Len(s) :
                  /\ In(p) => messages[p].sticky = call.state
                  /\ ~In(p) => messages[p] = s[p]
                  /\ messages[p].content = s[p].content
                  /\ messages[p].role = s[p].role
                  /\ messages[p].name = s[p].name
            /\ ret = Filter(messages, Differed)
            /\ dirty = (IF ret # <<>> THEN TRUE ELSE pre.dirty)
            /\ again.ret = <<>>
            /\ again.err = NoError
            /\ again.messages = messages
            /\ again.dirty = dirty

\* C7 witness: sticky(., ., True) on a clean thread of three messages, one
\* of them sticky already, returned the two others.
C7_Witness ==
    /\ Returned("sticky")
    /\ call.state
    /\ call.i = NoneInt
    /\ call.j = NoneInt
    /\ Len(pre.messages) = 3
    /\ pre.messages[2].sticky
    /\ Len(ret) = 2
    /\ ~pre.dirty
    /\ dirty

\* C8: append(message) never fails; the message lands at the end with its
\* name replaced by the name map's entry for its role (None when the role
\* has no entry, even when the caller had set a name), the earlier
\* messages are unchanged, and dirty is set.
C8_AppendOverwritesName ==
    Returned("append") =>
        LET m == call.message[1]
            n == Len(pre.messages)
        IN  /\ err = NoError
            /\ Len(messages) = n + 1
            /\ \A p \in 1..n : messages[p] = pre.messages[p]
            /\ messages[n + 1].content = m.content
            /\ messages[n + 1].role = m.role
            /\ messages[n + 1].sticky = m.sticky
            /\ messages[n + 1].name = (IF m.role = "user" THEN "A" ELSE None)
            /\ ("user" \in DOMAIN names /\ names["user"] = "A")
            /\ "assistant" \notin DOMAIN names
            /\ dirty

\* C8 witness: an assistant message the caller had named "B" was appended
\* to a thread whose name map has no assistant entry, and carries no name.
C8_Witness ==
    /\ Returned("append")
    /\ call.message[1].role = "assistant"
    /\ call.message[1].name = "B"
    /\ Len(pre.messages) = 2
    /\ messages[3].name = None

(***************************************************************************)
(* Serialisation: Message / MessageThread / MessageAttachment to_dict and  *)
(* from_dict (SerialSpec).  A string the code parses is a tuple of tokens. *)
(***************************************************************************)
\* longest message list of a thread of SerialSpec
MaxSerLen == 2
\* most attachments on one message of SerialSpec
MaxAtt == 1

\* attachment_type_registrar._registry: key -> class
Registry == [image_url |-> "Image", audio_url |-> "Audio"]

\* TwoWayRegistrar.reverse_get
reverse_get(cls) == CHOOSE key \in DOMAIN Registry : Registry[key] = cls

\* an exception raised where an object was expected
Raised(e) == [exception |-> e]

IsRaised(x) == "exception" \in DOMAIN x

\* an attachment object; the fields a class does not have are None / empty
AttachmentObject(cls, url, b64, mimetype, detail, type, data) ==
    [cls |-> cls, url |-> url, b64 |-> b64, mimetype |-> mimetype,
     detail |-> detail, type |-> type, data |-> data]

\* f"data:{mimetype};base64,{b64}"
DataUrl(mimetype, b64) == <<"data:", mimetype, ";", "base64", ",", b64>>

\* str.split(sep) on a tuple of tokens
RECURSIVE Split(_, _)
Split(toks, sep) ==
    IF \E k \in 1..Len(toks) : toks[k] = sep
    THEN LET k == CHOOSE k \in 1..Len(toks) :
                    /\ toks[k] = sep
                    /\ \A h \in 1..(k - 1) : toks[h] # sep
         IN  <<SubSeq(toks, 1, k - 1)>>
                \o Split(SubSeq(toks, k + 1, Len(toks)), sep)
    ELSE <<toks>>

\* "".join(toks) for the token tuples of this model: at most one token
Join(toks) == IF toks = <<>> THEN "" ELSE toks[1]

\* base64.b64encode(urllib.parse.unquote_to_bytes(raw)).decode()
b64encode(raw) == IF raw = "hi" THEN "aGk=" ELSE "AAAA"

\* base64.b64decode(s, validate=True) does not raise
ValidBase64(str) == str \in {"aGk=", "AAAA"}

\* re.match(r"^[a-z][a-z0-9+\-.]*://", url)
HasScheme(url) == url[1] \in {"http://", "https://"}

\* FileAttachment.__init__ that takes every data: payload for URL-encoded
FileAttachment_IgnoreBase64Flag(cls, url, b64, mimetype, detail) ==
    IF url # <<>>
    THEN IF url[1] = "data:"
         THEN IF ~\E k \in 2..Len(url) : url[k] = ","
              THEN Raised("ValueError")
              ELSE LET comma == CHOOSE k \in 2..Len(url) :
                                  /\ url[k] = ","
                                  /\ \A h \in 2..(k - 1) : url[h] # ","
                       header == SubSeq(url, 2, comma - 1)
                       raw == Join(SubSeq(url, comma + 1, Len(url)))
                       parts == Split(header, ";")
                       is_b64 == \E k \in 2..Len(parts) :
                                    parts[k] = <<"base64">>
                       data == b64encode(raw)
                   IN  IF data # "" /\ ~ValidBase64(data)
                       THEN Raised("ValueError")
                       ELSE AttachmentObject(cls, url, data,
                                IF parts[1] = <<>>
                                THEN "application/octet-stream"
                                ELSE Join(parts[1]),
                                detail, None, <<>>)
         ELSE IF HasScheme(url)
         THEN AttachmentObject(cls, url, None, mimetype, detail, None, <<>>)
         ELSE Raised("ValueError")
    ELSE IF b64 # None /\ b64 # "" /\ mimetype # None /\ mimetype # ""
    THEN IF ~ValidBase64(b64) THEN Raised("ValueError")
         ELSE AttachmentObject(cls, DataUrl(mimetype, b64), b64, mimetype,
                               detail, None, <<>>)
    ELSE Raised("ValueError")

\* FileAttachment.__init__ (Image.__init__ adds detail); url <<>> is a
\* falsy url
FileAttachment(cls, url, b64, mimetype, detail) ==
    IF url # <<>>
    THEN IF url[1] = "data:"
         THEN IF ~\E k \in 2..Len(url) : url[k] = ","
              THEN Raised("ValueError")
              ELSE LET comma == CHOOSE k \in 2..Len(url) :
                                  /\ url[k] = ","
                                  /\ \A h \in 2..(k - 1) : url[h] # ","
                       header == SubSeq(url, 2, comma - 1)
                       raw == Join(SubSeq(url, comma + 1, Len(url)))
                       parts == Split(header, ";")
                       is_b64 == \E k \in 2..Len(parts) :
                                    parts[k] = <<"base64">>
                       data == IF is_b64 THEN raw ELSE b64encode(raw)
                   IN  IF data # "" /\ ~ValidBase64(data)
                       THEN Raised("ValueError")
                       ELSE AttachmentObject(cls, url, data,
                                IF parts[1] = <<>>
                                THEN "application/octet-stream"
                                ELSE Join(parts[1]),
                                detail, None, <<>>)
         ELSE IF HasScheme(url)
         THEN AttachmentObject(cls, url, None, mimetype, detail, None, <<>>)
         ELSE Raised("ValueError")
    ELSE IF b64 # None /\ b64 # "" /\ mimetype # None /\ mimetype # ""
    THEN IF ~ValidBase64(b64) THEN Raised("ValueError")
         ELSE AttachmentObject(cls, DataUrl(mimetype, b64), b64, mimetype,
                               detail, None, <<>>)
    ELSE Raised("ValueError")

\* UnknownAttachment.__init__
UnknownAttachment(type, data) ==
    AttachmentObject("UnknownAttachment", <<>>, None, None, None, type, data)

\* FileAttachment._serialize / Image._serialize / UnknownAttachment._serialize
serialize(a) ==
    IF a.cls = "UnknownAttachment" THEN a.data
    ELSE IF a.cls = "Image" /\ a.detail # None
    THEN [url |-> a.url, detail |-> a.detail]
    ELSE [url |-> a.url]

\* FileAttachment._deserialize / Image._deserialize
deserialize(cls, d) ==
    IF "url" \notin DOMAIN d THEN Raised("KeyError")
    ELSE FileAttachment(cls, d.url, None, None,
                        IF cls = "Image" THEN Get(d, "detail") ELSE None)

\* MessageAttachment.to_dict / UnknownAttachment.to_dict
Attachment_to_dict(a) ==
    IF a.cls = "UnknownAttachment"
    THEN [type |-> a.type, data |-> serialize(a)]
    ELSE [type |-> reverse_get(a.cls), data |-> serialize(a)]

\* MessageAttachment.from_dict that takes an unregistered type for an
\* attachment without payload
Attachment_from_dict_DropData(d) ==
    LET key == Get(d, "type")
        data == IF "data" \in DOMAIN d THEN d.data ELSE <<>>
    IN  IF key \notin DOMAIN Registry
        THEN UnknownAttachment(key, <<>>)
        ELSE deserialize(Registry[key], data)

\* MessageAttachment.from_dict
Attachment_from_dict(d) ==
    LET key == Get(d, "type")
        data == IF "data" \in DOMAIN d THEN d.data ELSE <<>>
    IN  IF key \notin DOMAIN Registry
        THEN UnknownAttachment(key, data)
        ELSE deserialize(Registry[key], data)

\* mimetypes.guess_type(urllib.parse.urlparse(url).path)[0]
guess_type(url) == IF url[Len(url)] = ".png" THEN "image/png" ELSE None

\* urllib.request.urlopen(url): the body, base64-encoded, and the
\* Content-Type the server of the URL sends
urlopen(url) == [b64 |-> "Qk9EWQ==", ctype |-> "image/jpeg"]

\* FileAttachment.b64 (property)
b64(a) == IF a.b64 # None THEN a.b64 ELSE urlopen(a.url).b64

\* FileAttachment.mimetype (property)
mimetype(a) ==
    IF a.mimetype # None THEN a.mimetype
    ELSE IF guess_type(a.url) # None THEN guess_type(a.url)
    ELSE urlopen(a.url).ctype

\* MessageAttachment.__eq__ / FileAttachment.__eq__
Attachment_eq(a, c) ==
    IF a.cls # "UnknownAttachment" /\ c.cls # "UnknownAttachment"
    THEN mimetype(a) = mimetype(c) /\ b64(a) = b64(c)
    ELSE Attachment_to_dict(a) = Attachment_to_dict(c)

\* Message.to_dict
Message_to_dict(m) ==
    [content |-> m.content, role |-> m.role, name |-> m.name,
     sticky |-> m.sticky,
     attachments |-> [k \in 1..Len(m.attachments) |->
                        Attachment_to_dict(m.attachments[k])],
     metadata |-> m.metadata]

\* Message.from_dict: the keys of d it knows set the fields, the others
\* keep the dataclass defaults
Message_from_dict(d) ==
    LET atts == IF "attachments" \in DOMAIN d
                THEN [k \in 1..Len(d.attachments) |->
                        Attachment_from_dict(d.attachments[k])]
                ELSE <<>>
    IN  IF "content" \notin DOMAIN d \/ "role" \notin DOMAIN d
        THEN Raised("TypeError")
        ELSE IF d.role \notin MessageRole THEN Raised("ValueError")
        ELSE IF \E k \in 1..Len(atts) : IsRaised(atts[k])
        THEN atts[CHOOSE k \in 1..Len(atts) : IsRaised(atts[k])]
        ELSE [content |-> d.content,
              role |-> d.role,
              name |-> Get(d, "name"),
              sticky |-> IF "sticky" \in DOMAIN d THEN d.sticky
                         ELSE IF "_sticky" \in DOMAIN d THEN d["_sticky"]
                         ELSE FALSE,
              attachments |-> atts,
              metadata |-> IF "metadata" \in DOMAIN d THEN d.metadata
                           ELSE <<>>]

\* MessageThread.__init__
MessageThread(name, msgs, nm) ==
    [name |-> name, messages |-> msgs, names |-> nm, dirty |-> FALSE]

\* MessageThread.to_dict
Thread_to_dict(t) ==
    [messages |-> [k \in 1..Len(t.messages) |-> Message_to_dict(t.messages[k])],
     names |-> t.names]

\* MessageThread.from_dict
Thread_from_dict(d, name) ==
    LET msgs == IF "messages" \in DOMAIN d
                THEN [k \in 1..Len(d.messages) |->
                        Message_from_dict(d.messages[k])]
                ELSE <<>>
        nm == IF "names" \in DOMAIN d THEN d.names ELSE <<>>
    IN  IF \E k \in 1..Len(msgs) : IsRaised(msgs[k])
        THEN msgs[CHOOSE k \in 1..Len(msgs) : IsRaised(msgs[k])]
        ELSE IF \E key \in DOMAIN nm : key \notin MessageRole
        THEN Raised("ValueError")
        ELSE MessageThread(name, msgs, nm)

\* Message.__eq__ (dataclass): field by field, lists element by element
Message_eq(m, n) ==
    /\ m.content = n.content
    /\ m.role = n.role
    /\ m.name = n.name
    /\ m.sticky = n.sticky
    /\ Len(m.attachments) = Len(n.attachments)
    /\ \A k \in 1..Len(m.attachments) :
          Attachment_eq(m.attachments[k], n.attachments[k])
    /\ m.metadata = n.metadata

(***************************************************************************)
(* Inputs of SerialSpec                                                    *)
(***************************************************************************)
\* a URL whose path ends in a known extension, and one without
HttpPng == <<"http://", "example.com/image", ".png">>

HttpPlain == <<"http://", "example.com/image">>

\* the attachments the shell and a loaded file can put on a message
SerAttachments ==
    { FileAttachment("Image", HttpPng, None, None, "high"),
      FileAttachment("Audio", HttpPlain, None, None, None),
      FileAttachment("Image", <<>>, "aGk=", "image/png", None),
      FileAttachment("Image", <<"data:", "text/plain", ",", "hi">>,
                     None, None, None),
      FileAttachment("Image", <<"data:", ";", "base64", ",", "AAAA">>,
                     None, None, None),
      UnknownAttachment("nonexistent_attachment", [username |-> "kwebb"]) }

\* a user message with any of the attachment lists, and an assistant
\* message with a name, the sticky flag and metadata
SerMessages ==
    { [Message("a", "user", None, FALSE) EXCEPT !.attachments = a] :
        a \in SeqsUpTo(SerAttachments, MaxAtt) }
    \cup { [Message("b", "assistant", "A", TRUE)
                EXCEPT !.metadata = [k |-> 1]] }

SerThreads ==
    { MessageThread("t", msgs, nm) :
        msgs \in SeqsUpTo(SerMessages, MaxSerLen),
        nm \in { <<>>, [user |-> "A"] } }

\* dicts that were not written by to_dict: the one of
\* test_message_unknown_attachment, a version 1 file (_sticky), and a
\* file with a role that MessageRole does not have
HandWritten ==
    { [messages |-> << [content |-> "", role |-> "user",
                        attachments |->
                           << [type |-> "nonexistent_attachment",
                               data |-> [username |-> "kwebb"]] >>] >>],
      [messages |-> << ("_sticky" :> TRUE) @@
                       [content |-> "Hello", role |-> "user",
                        name |-> "Bill",
                        attachments |->
                           << [type |-> "image_url",
                               data |-> [url |-> HttpPng,
                                         detail |-> "high"]] >>] >>,
       names |-> [user |-> "Alice"]],
      [messages |-> << [content |-> "x", role |-> "tool"] >>] }

(***************************************************************************)
(* SerialSpec: a thread is exported with to_dict and read back with        *)
(* from_dict; or a hand-written dict is read with from_dict.               *)
(***************************************************************************)
InitSerial ==
    /\ StoreIdle
    /\ ShellIdle
    /\ RangeIdle
    /\ MacroIdle
    /\ FormatIdle
    /\ CostIdle
    /\ CallsIdle
    /\ restored = <<>>
    /\ \/ /\ serPhase = "thread"
          /\ original \in { <<t>> : t \in SerThreads }
          /\ record = <<>>
       \/ /\ serPhase = "saved"
          /\ original = <<>>
          /\ record \in { <<d>> : d \in HandWritten }

\* MessageThread.to_dict
SerToDict ==
    /\ serPhase = "thread"
    /\ serPhase' = "saved"
    /\ record' = <<Thread_to_dict(original[1])>>
    /\ UNCHANGED <<original, restored>>
    /\ UNCHANGED nonSerialVars

\* MessageThread.from_dict; an exception leaves no thread
SerFromDict ==
    /\ serPhase = "saved"
    /\ LET t == Thread_from_dict(record[1], "t")
       IN  IF IsRaised(t)
           THEN serPhase' = "failed" /\ restored' = <<>>
           ELSE serPhase' = "loaded" /\ restored' = <<t>>
    /\ UNCHANGED <<original, record>>
    /\ UNCHANGED nonSerialVars

NextSerial ==
    \/ SerToDict
    \/ SerFromDict

SerialSpec == InitSerial /\ [][NextSerial]_vars

\* the attachment records of message i of the dict d
RecordAttachments(d, i) ==
    IF "attachments" \in DOMAIN d.messages[i] THEN d.messages[i].attachments
    ELSE <<>>

\* C9: from_dict(thread.to_dict()) never raises and gives a thread with an
\* equal ordered message list (content, role, name, sticky, attachments of
\* the same class, url and detail, metadata) and an equal name map; and
\* every attachment record of a dict whose type is not registered is read
\* as an UnknownAttachment at the same place (none is dropped) whose
\* to_dict() is the record.
C9_RoundTrip ==
    /\ (serPhase = "failed" => original = <<>>)
    /\ (serPhase = "loaded" /\ original # <<>>) =>
          LET o == original[1]
              r == restored[1]
          IN  /\ Len(r.messages) = Len(o.messages)
              /\ \A i \in 1..Len(o.messages) :
                    /\ Message_eq(r.messages[i], o.messages[i])
                    /\ \A k \in 1..Len(o.messages[i].attachments) :
                          LET a == o.messages[i].attachments[k]
                              c == r.messages[i].attachments[k]
                          IN  /\ c.cls = a.cls
                              /\ c.url = a.url
                              /\ c.detail = a.detail
                              /\ c.type = a.type
                              /\ c.data = a.data
              /\ DOMAIN r.names = DOMAIN o.names
              /\ \A role \in DOMAIN o.names : r.names[role] = o.names[role]
    /\ serPhase = "loaded" =>
          LET d == record[1]
              r == restored[1]
          IN  /\ Len(r.messages) = Len(d.messages)
              /\ \A i \in 1..Len(d.messages) :
                    /\ Len(r.messages[i].attachments)
                          = Len(RecordAttachments(d, i))
                    /\ \A k \in 1..Len(RecordAttachments(d, i)) :
                          RecordAttachments(d, i)[k].type \notin DOMAIN Registry
                          => /\ r.messages[i].attachments[k].cls
                                  = "UnknownAttachment"
                             /\ Attachment_to_dict(
                                    r.messages[i].attachments[k])
                                  = RecordAttachments(d, i)[k]

\* C9 witness: a thread with a name map and two messages, one carrying an
\* attachment of unregistered type and one an image read from a file, came
\* back from from_dict(to_dict()).
C9_Witness ==
    /\ serPhase = "loaded"
    /\ original # <<>>
    /\ DOMAIN original[1].names # {}
    /\ Len(restored[1].messages) = 2
    /\ Len(restored[1].messages[1].attachments) = 1
    /\ restored[1].messages[1].attachments[1].cls = "UnknownAttachment"
    /\ restored[1].messages[1].attachments[1].data = [username |-> "kwebb"]
    /\ Len(restored[1].messages[2].attachments) = 1
    /\ restored[1].messages[2].attachments[1].cls = "Image"
    /\ restored[1].messages[2].attachments[1].b64 = "aGk="
    /\ restored[1].messages[2].attachments[1].mimetype = "image/png"

\* C9 second case reached: the hand-written dict of
\* test_message_unknown_attachment was read.
C9_WitnessHandWritten ==
    /\ serPhase = "loaded"
    /\ original = <<>>
    /\ restored[1].messages[1].attachments[1].type = "nonexistent_attachment"

(***************************************************************************)
(* The Gptcmd shell (cli.py).  A Message object is a record in its         *)
(* thread's list; its attachments list and metadata dict, and a thread's   *)
(* names dict, are objects of their own: the record holds their positions  *)
(* in attLists, metaDicts and nameDicts, so that two records holding the   *)
(* same position share the object, as two Python references do.            *)
(***************************************************************************)
\* how many commands one session runs
MaxCmds == 4

\* the variables ShellSpec leaves alone
nonShellVars ==
    <<storeVars, serialVars, rangeVars, macroVars, formatVars, costVars,
      callVars>>

\* a whitespace-separated token of a command line: ".", an integer literal
\* or any other word
Dot == [kind |-> "dot", int |-> 0, str |-> "."]

IntTok(n) == [kind |-> "int", int |-> n, str |-> ""]

Word(w) == [kind |-> "word", int |-> 0, str |-> w]

\* the text of a token
TokenText(t) == IF t.kind = "int" THEN ToString(t.int) ELSE t.str

\* the pair _user_range_to_python_range returns, or the ValueError it raises
PyRange(start, end) == [err |-> NoError, start |-> start, end |-> end]

RangeError == [err |-> "ValueError", start |-> NoneInt, end |-> NoneInt]

\* _convert that treats an end token like a start token
_convert_SameForEnd(token, is_start) ==
    IF token.kind = "dot" THEN NoneInt
    ELSE LET val == token.int
         IN  Some(IF val > 0 THEN val - 1 ELSE val)

\* _convert without the special case of the end token -1
_convert_MinusOneFinite(token, is_start) ==
    IF token.kind = "dot" THEN NoneInt
    ELSE LET val == token.int
         IN  IF is_start
             THEN Some(IF val > 0 THEN val - 1 ELSE val)
             ELSE IF val > 0 THEN Some(val)
                  ELSE Some(val + 1)

\* _convert, local to _user_range_to_python_range; the token is "." or an
\* integer literal
_convert(token, is_start) ==
    IF token.kind = "dot" THEN NoneInt
    ELSE LET val == token.int
         IN  IF is_start
             THEN Some(IF val > 0 THEN val - 1 ELSE val)
             ELSE IF val > 0 THEN Some(val)
                  ELSE IF val = -1 THEN NoneInt
                  ELSE Some(val + 1)

\* _user_range_to_python_range that tests allow_single before the "."
_user_range_to_python_range_DotAfterSingle(tokens, allow_single, strict_range) ==
    IF tokens = <<>> THEN RangeError
    ELSE IF Len(tokens) = 1 /\ ~allow_single THEN RangeError
    ELSE IF Len(tokens) = 1 /\ tokens[1].kind = "dot"
    THEN PyRange(NoneInt, NoneInt)
    ELSE IF Len(tokens) > 2 THEN RangeError
    ELSE LET start == tokens[1]
             end == tokens[Len(tokens)]
         IN  IF start.kind = "word" \/ end.kind = "word" THEN RangeError
             ELSE LET py_start == _convert(start, TRUE)
                      converted == _convert(end, FALSE)
                      py_end ==
                          IF Len(tokens) = 1
                          THEN IF py_start = Some(-1) THEN NoneInt
                               ELSE IF py_start # NoneInt
                               THEN Some(py_start[1] + 1)
                               ELSE converted
                          ELSE converted
                  IN  IF /\ strict_range
                         /\ py_start # NoneInt
                         /\ py_end # NoneInt
                         /\ py_start[1] >= py_end[1]
                      THEN RangeError
                      ELSE PyRange(py_start, py_end)

\* _user_range_to_python_range that takes a single token whatever
\* allow_single says
_user_range_to_python_range_IgnoreAllowSingle(tokens, allow_single, strict_range) ==
    IF tokens = <<>> THEN RangeError
    ELSE IF Len(tokens) = 1 /\ tokens[1].kind = "dot"
    THEN PyRange(NoneInt, NoneInt)
    ELSE IF Len(tokens) > 2 THEN RangeError
    ELSE LET start == tokens[1]
             end == tokens[Len(tokens)]
         IN  IF start.kind = "word" \/ end.kind = "word" THEN RangeError
             ELSE LET py_start == _convert(start, TRUE)
                      converted == _convert(end, FALSE)
                      py_end ==
                          IF Len(tokens) = 1
                          THEN IF py_start = Some(-1) THEN NoneInt
                               ELSE IF py_start # NoneInt
                               THEN Some(py_start[1] + 1)
                               ELSE converted
                          ELSE converted
                  IN  IF /\ strict_range
                         /\ py_start # NoneInt
                         /\ py_end # NoneInt
                         /\ py_start[1] >= py_end[1]
                      THEN RangeError
                      ELSE PyRange(py_start, py_end)

\* _user_range_to_python_range whose strict test lets start = end pass
_user_range_to_python_range_StrictGreater(tokens, allow_single, strict_range) ==
    IF tokens = <<>> THEN RangeError
    ELSE IF Len(tokens) = 1 /\ tokens[1].kind = "dot"
    THEN PyRange(NoneInt, NoneInt)
    ELSE IF Len(tokens) = 1 /\ ~allow_single THEN RangeError
    ELSE IF Len(tokens) > 2 THEN RangeError
    ELSE LET start == tokens[1]
             end == tokens[Len(tokens)]
         IN  IF start.kind = "word" \/ end.kind = "word" THEN RangeError
             ELSE LET py_start == _convert(start, TRUE)
                      converted == _convert(end, FALSE)
                      py_end ==
                          IF Len(tokens) = 1
                          THEN IF py_start = Some(-1) THEN NoneInt
                               ELSE IF py_start # NoneInt
                               THEN Some(py_start[1] + 1)
                               ELSE converted
                          ELSE converted
                  IN  IF /\ strict_range
                         /\ py_start # NoneInt
                         /\ py_end # NoneInt
                         /\ py_start[1] > py_end[1]
                      THEN RangeError
                      ELSE PyRange(py_start, py_end)

\* Gptcmd._user_range_to_python_range on ref.split(); int(token) raises
\* ValueError on a word
\* _user_range_to_python_range comparing the bounds only when both count
\* from the same end of the sequence
_user_range_to_python_range_SameEndOnly(tokens, allow_single, strict_range) ==
    IF tokens = <<>> THEN RangeError
    ELSE IF Len(tokens) = 1 /\ tokens[1].kind = "dot"
    THEN PyRange(NoneInt, NoneInt)
    ELSE IF Len(tokens) = 1 /\ ~allow_single THEN RangeError
    ELSE IF Len(tokens) > 2 THEN RangeError
    ELSE LET start == tokens[1]
             end == tokens[Len(tokens)]
         IN  IF start.kind = "word" \/ end.kind = "word" THEN RangeError
             ELSE LET py_start == _convert(start, TRUE)
                      converted == _convert(end, FALSE)
                      py_end ==
                          IF Len(tokens) = 1
                          THEN IF py_start = Some(-1) THEN NoneInt
                               ELSE IF py_start # NoneInt
                               THEN Some(py_start[1] + 1)
                               ELSE converted
                          ELSE converted
                  IN  IF /\ strict_range
                         /\ py_start # NoneInt
                         /\ py_end # NoneInt
                         /\ (py_start[1] >= 0) <=> (py_end[1] >= 0)
                         /\ py_start[1] >= py_end[1]
                      THEN RangeError
                      ELSE PyRange(py_start, py_end)

_user_range_to_python_range(tokens, allow_single, strict_range) ==
    IF tokens = <<>> THEN RangeError
    ELSE IF Len(tokens) = 1 /\ tokens[1].kind = "dot"
    THEN PyRange(NoneInt, NoneInt)
    ELSE IF Len(tokens) = 1 /\ ~allow_single THEN RangeError
    ELSE IF Len(tokens) > 2 THEN RangeError
    ELSE LET start == tokens[1]
             end == tokens[Len(tokens)]
         IN  IF start.kind = "word" \/ end.kind = "word" THEN RangeError
             ELSE LET py_start == _convert(start, TRUE)
                      converted == _convert(end, FALSE)
                      py_end ==
                          IF Len(tokens) = 1
                          THEN IF py_start = Some(-1) THEN NoneInt
                               ELSE IF py_start # NoneInt
                               THEN Some(py_start[1] + 1)
                               ELSE converted
                          ELSE converted
                  IN  IF /\ strict_range
                         /\ py_start # NoneInt
                         /\ py_end # NoneInt
                         /\ py_start[1] >= py_end[1]
                      THEN RangeError
                      ELSE PyRange(py_start, py_end)

\* dataclasses.replace(m) without changes: a new Message object whose
\* fields hold the values of m's fields; for attachments and metadata the
\* value is the reference to the same list and dict
replace(m) ==
    [content |-> m.content, role |-> m.role, name |-> m.name,
     sticky |-> m.sticky, attachments |-> m.attachments,
     metadata |-> m.metadata]

\* MessageThread.__init__ given messages and the names dict (a reference)
ThreadObject(name, msgs, namesRef) ==
    [name |-> name,
     messages |-> [i \in 1..Len(msgs) |-> replace(msgs[i])],
     names |-> namesRef,
     dirty |-> FALSE]

\* an empty dict
EmptyDict == <<>>

\* d[key] = value
DictSet(d, key, value) ==
    [k \in DOMAIN d \cup {key} |-> IF k = key THEN value ELSE d[k]]

\* d.pop(key) for a key of d
DictPop(d, key) ==
    IF DOMAIN d = {key} THEN EmptyDict
    ELSE [k \in DOMAIN d \ {key} |-> d[k]]

\* Gptcmd._json_eval on the values the sessions enter: a literal of a
\* number parses, an unbalanced brace raises JSONDecodeError
_json_eval(s) ==
    IF s = <<"1">> THEN [err |-> NoError, value |-> 1]
    ELSE IF s = <<"2">> THEN [err |-> NoError, value |-> 2]
    ELSE [err |-> "JSONDecodeError", value |-> 0]

\* the thread the shell is in
CurrentThread == threadObjs[current]

\* the session may run one more command
CanRun == session = "running" /\ ncmds < MaxCmds

\* bookkeeping of a command that ran, and of one that ran on a thread name
RanOn(c, a) == cmd' = c /\ cmdArg' = a /\ ncmds' = ncmds + 1

Ran(c) == RanOn(c, "")

\* thread t after a MessageThread method with outcome out
WithOutcome(t, out) ==
    [threadObjs EXCEPT ![t].messages = out.messages, ![t].dirty = out.dirty]

(***************************************************************************)
(* Inputs of ShellSpec                                                     *)
(***************************************************************************)
\* the thread names the session uses
ThreadKeys == {"t1"}

\* message ranges as typed: nothing, all, one message, a pair, a pair
\* whose end is before its start
Ranges ==
    { <<>>, <<Dot>>, <<IntTok(1)>>, <<IntTok(-1)>>,
      <<IntTok(1), IntTok(2)>>, <<IntTok(2), IntTok(1)>> }

\* arguments of move as typed: the ranges above, a destination counted
\* from the end and a source counted from the end that is before the first
\* message of any thread of the session
Moves ==
    Ranges \cup { <<IntTok(1), IntTok(-2)>>, <<IntTok(-3), IntTok(1)>> }

\* the argument a command was typed with
Typed(toks) ==
    IF toks = <<>> THEN ""
    ELSE IF Len(toks) = 1 THEN TokenText(toks[1])
    ELSE TokenText(toks[1]) \o " " \o TokenText(toks[2])

\* a single message as typed: the last one by default, or its number
Refs == { <<>>, <<IntTok(1)>>, <<IntTok(3)>> }

\* arguments of meta and unmeta: [message] [key] [value]
MetaArgs ==
    { <<>>, <<Word("k")>>, <<IntTok(1)>>,
      <<Word("k"), Word("1")>>, <<IntTok(1), Word("k"), Word("2")>>,
      <<Word("k"), Word("{")>> }

(***************************************************************************)
(* The commands                                                            *)
(***************************************************************************)
\* Gptcmd.__init__: the detached thread, with its own empty names dict,
\* is the current thread and there are no named threads
InitShell ==
    /\ StoreIdle
    /\ SerialIdle
    /\ RangeIdle
    /\ MacroIdle
    /\ FormatIdle
    /\ CostIdle
    /\ CallsIdle
    /\ nameDicts = <<EmptyDict>>
    /\ threadObjs = <<ThreadObject("*detached*", <<>>, 1)>>
    /\ threads = EmptyDict
    /\ current = 1
    /\ attLists = <<>>
    /\ metaDicts = <<>>
    /\ cmd = "none"
    /\ cmdArg = ""
    /\ ncmds = 0
    /\ file = EmptyDict
    /\ last_path = None
    /\ session = "running"

\* Gptcmd._append_new_message with a non-empty argument: Message(content,
\* role) gets a new attachments list and a new metadata dict
_append_new_message(arg, role) ==
    LET msg == [Message(arg, role, None, FALSE)
                    EXCEPT !.attachments = Len(attLists) + 1,
                           !.metadata = Len(metaDicts) + 1]
        out == append(CurrentThread.messages, CurrentThread.dirty,
                      nameDicts[CurrentThread.names], msg)
    IN  /\ threadObjs' = WithOutcome(current, out)
        /\ attLists' = Append(attLists, <<>>)
        /\ metaDicts' = Append(metaDicts, EmptyDict)
        /\ UNCHANGED <<threads, current, nameDicts>>

\* Gptcmd.do_user
do_user ==
    /\ CanRun
    /\ _append_new_message("a", "user")
    /\ Ran("user")
    /\ UNCHANGED <<saveVars, nonShellVars>>

\* Gptcmd.do_assistant
do_assistant ==
    /\ CanRun
    /\ _append_new_message("b", "assistant")
    /\ Ran("assistant")
    /\ UNCHANGED <<saveVars, nonShellVars>>

\* Gptcmd.do_thread: the empty argument is the detached thread
do_thread ==
    /\ CanRun
    /\ \E arg \in ThreadKeys \cup {""} :
        IF arg = ""
        THEN /\ current' = 1
             /\ UNCHANGED <<threadObjs, threads>>
             /\ RanOn("thread", arg)
        ELSE IF arg \notin DOMAIN threads
        THEN LET new == ThreadObject(arg, CurrentThread.messages,
                                     CurrentThread.names)
                 detached == IF current = 1 /\ threadObjs[1].dirty
                             THEN [threadObjs EXCEPT ![1].dirty = FALSE]
                             ELSE threadObjs
             IN  /\ threadObjs' = Append(detached, new)
                 /\ threads' = DictSet(threads, arg, Len(threadObjs) + 1)
                 /\ current' = Len(threadObjs) + 1
                 /\ RanOn("thread", arg)
        ELSE /\ current' = threads[arg]
             /\ UNCHANGED <<threadObjs, threads>>
             /\ RanOn("thread", arg)
    /\ UNCHANGED <<nameDicts, attLists, metaDicts>>
    /\ UNCHANGED <<saveVars, nonShellVars>>

\* the loop of do_copy: thread.append(dataclasses.replace(msg)) for each
\* message of the selection s
RECURSIVE AppendCopies(_, _, _, _)
AppendCopies(msgs, d, nm, s) ==
    IF s = <<>> THEN Outcome(msgs, d, <<>>, NoError)
    ELSE LET out == append(msgs, d, nm, replace(Head(s)))
         IN  AppendCopies(out.messages, out.dirty, nm, Tail(s))

\* Gptcmd.do_copy; can_copy is the answer to the confirmation
do_copy ==
    /\ CanRun
    /\ \E ref \in Ranges \ {<<>>}, threadname \in ThreadKeys \cup {None},
          can_copy \in BOOLEAN :
        LET r == _user_range_to_python_range(ref, TRUE, TRUE)
            s == Pick(CurrentThread.messages,
                      SliceRange(CurrentThread.messages, r.start, r.end))
            thread == IF threadname = None THEN 1
                      ELSE IF threadname \in DOMAIN threads
                      THEN threads[threadname]
                      ELSE 0
        IN  IF r.err # NoError \/ s = <<>> \/ ~can_copy
            THEN UNCHANGED <<threadObjs, threads>>
            ELSE IF thread = 0
            THEN /\ threadObjs' =
                        Append(threadObjs,
                               ThreadObject(threadname, s,
                                            CurrentThread.names))
                 /\ threads' =
                        DictSet(threads, threadname, Len(threadObjs) + 1)
            ELSE /\ threadObjs' =
                        WithOutcome(thread,
                            AppendCopies(threadObjs[thread].messages,
                                         threadObjs[thread].dirty,
                                         nameDicts[threadObjs[thread].names],
                                         s))
                 /\ UNCHANGED threads
    /\ Ran("copy")
    /\ UNCHANGED <<current, nameDicts, attLists, metaDicts>>
    /\ UNCHANGED <<saveVars, nonShellVars>>

\* Gptcmd.do_edit on a message number (or nothing: the last message); new
\* is the text the editor returns, empty when the edit is cancelled
do_edit ==
    /\ CanRun
    /\ \E arg \in Refs, new \in {"", "e"} :
        LET r == _user_range_to_python_range(arg, TRUE, TRUE)
            idx == IF arg = <<>> THEN -1 ELSE r.start[1]
            msgs == CurrentThread.messages
        IN  IF arg # <<>> /\ r.err # NoError THEN UNCHANGED threadObjs
            ELSE IF ~ValidIndex(msgs, idx) THEN UNCHANGED threadObjs
            ELSE IF new = "" THEN UNCHANGED threadObjs
            ELSE threadObjs' =
                    [threadObjs EXCEPT
                        ![current].messages[Pos(msgs, idx)].content = new]
    /\ Ran("edit")
    /\ UNCHANGED <<threads, current, nameDicts, attLists, metaDicts>>
    /\ UNCHANGED <<saveVars, nonShellVars>>

\* Gptcmd.do_rename; supported tells whether the account's provider has
\* the MESSAGE_NAME_FIELD feature
do_rename ==
    /\ CanRun
    /\ \E role \in {"user", "assistant"}, ref \in Ranges \ {<<>>},
          name \in {None, "N"}, supported \in BOOLEAN :
        LET r == _user_range_to_python_range(ref, TRUE, TRUE)
        IN  IF ~supported \/ r.err # NoError THEN UNCHANGED threadObjs
            ELSE threadObjs' =
                    WithOutcome(current,
                        rename(CurrentThread.messages, CurrentThread.dirty,
                               role, name, r.start, r.end))
    /\ Ran("rename")
    /\ UNCHANGED <<threads, current, nameDicts, attLists, metaDicts>>
    /\ UNCHANGED <<saveVars, nonShellVars>>

\* the body do_sticky and do_unsticky share
StickyCommand(state) ==
    \E arg \in Ranges :
        LET r == _user_range_to_python_range(arg, TRUE, TRUE)
        IN  IF r.err # NoError THEN UNCHANGED threadObjs
            ELSE threadObjs' =
                    WithOutcome(current,
                        sticky(CurrentThread.messages, CurrentThread.dirty,
                               r.start, r.end, state))

\* Gptcmd.do_sticky
do_sticky ==
    /\ CanRun
    /\ StickyCommand(TRUE)
    /\ Ran("sticky")
    /\ UNCHANGED <<threads, current, nameDicts, attLists, metaDicts>>
    /\ UNCHANGED <<saveVars, nonShellVars>>

\* Gptcmd.do_unsticky
do_unsticky ==
    /\ CanRun
    /\ StickyCommand(FALSE)
    /\ Ran("unsticky")
    /\ UNCHANGED <<threads, current, nameDicts, attLists, metaDicts>>
    /\ UNCHANGED <<saveVars, nonShellVars>>

\* Gptcmd._attachment_url_helper for a location that starts with "http";
\* ref is the message number typed after it, if any
_attachment_url_helper(attachment_type) ==
    \E location \in {HttpPng}, ref \in Refs :
        LET r == _user_range_to_python_range(ref, TRUE, TRUE)
            idx == IF ref = <<>> THEN -1 ELSE r.start[1]
            a == FileAttachment(attachment_type, location, None, None, None)
            msgs == CurrentThread.messages
        IN  IF ref # <<>> /\ r.err # NoError THEN UNCHANGED attLists
            ELSE IF IsRaised(a) THEN UNCHANGED attLists
            ELSE IF ~ValidIndex(msgs, idx) THEN UNCHANGED attLists
            ELSE attLists' =
                    [attLists EXCEPT
                        ![msgs[Pos(msgs, idx)].attachments] = Append(@, a)]

\* Gptcmd.do_image
do_image ==
    /\ CanRun
    /\ _attachment_url_helper("Image")
    /\ Ran("image")
    /\ UNCHANGED <<threadObjs, threads, current, nameDicts, metaDicts>>
    /\ UNCHANGED <<saveVars, nonShellVars>>

\* Gptcmd.do_audio
do_audio ==
    /\ CanRun
    /\ _attachment_url_helper("Audio")
    /\ Ran("audio")
    /\ UNCHANGED <<threadObjs, threads, current, nameDicts, metaDicts>>
    /\ UNCHANGED <<saveVars, nonShellVars>>

\* what _parse_meta_args returns: the position of the target message, the
\* key and the value (the words after the key; none of them for None), or
\* the exception raised
MetaTarget(e, p, key, val) == [err |-> e, target |-> p, key |-> key, val |-> val]

\* Gptcmd._parse_meta_args on arg.split()
_parse_meta_args(tokens) ==
    LET msgs == CurrentThread.messages
    IN  IF tokens = <<>>
        THEN IF msgs = <<>> THEN MetaTarget("IndexError", 0, None, <<>>)
             ELSE MetaTarget(NoError, Len(msgs), None, <<>>)
        ELSE LET has_idx == tokens[1].kind \in {"dot", "int"}
                 rest == IF has_idx THEN Tail(tokens) ELSE tokens
                 r == _user_range_to_python_range(<<tokens[1]>>, TRUE, TRUE)
                 idx == IF ~has_idx \/ r.start = NoneInt THEN -1
                        ELSE r.start[1]
             IN  IF has_idx /\ r.err # NoError
                 THEN MetaTarget("ValueError", 0, None, <<>>)
                 ELSE IF ~ValidIndex(msgs, idx)
                 THEN MetaTarget("IndexError", 0, None, <<>>)
                 ELSE MetaTarget(NoError, Pos(msgs, idx),
                         IF rest = <<>> THEN None ELSE TokenText(rest[1]),
                         [i \in 1..(Len(rest) - 1) |->
                             TokenText(rest[i + 1])])

\* the current thread's dirty flag set
MarkDirty == [threadObjs EXCEPT ![current].dirty = TRUE]

\* Gptcmd.do_meta
do_meta ==
    /\ CanRun
    /\ \E arg \in MetaArgs :
        LET a == _parse_meta_args(arg)
            ref == CurrentThread.messages[a.target].metadata
            v == _json_eval(a.val)
        IN  IF a.err # NoError \/ a.key = None \/ a.val = <<>>
            THEN UNCHANGED <<threadObjs, metaDicts>>
            ELSE IF v.err # NoError THEN UNCHANGED <<threadObjs, metaDicts>>
            ELSE /\ metaDicts' =
                        [metaDicts EXCEPT ![ref] = DictSet(@, a.key, v.value)]
                 /\ threadObjs' = MarkDirty
    /\ Ran("meta")
    /\ UNCHANGED <<threads, current, nameDicts, attLists>>
    /\ UNCHANGED <<saveVars, nonShellVars>>

\* Gptcmd.do_unmeta; confirmed is the answer to the confirmation
do_unmeta ==
    /\ CanRun
    /\ \E arg \in MetaArgs, confirmed \in BOOLEAN :
        LET a == _parse_meta_args(arg)
            ref == CurrentThread.messages[a.target].metadata
        IN  IF a.err # NoError \/ a.val # <<>>
            THEN UNCHANGED <<threadObjs, metaDicts>>
            ELSE IF a.key = None
            THEN IF metaDicts[ref] = EmptyDict \/ ~confirmed
                 THEN UNCHANGED <<threadObjs, metaDicts>>
                 ELSE /\ metaDicts' = [metaDicts EXCEPT ![ref] = EmptyDict]
                      /\ threadObjs' = MarkDirty
            ELSE IF a.key \in DOMAIN metaDicts[ref]
            THEN /\ metaDicts' =
                        [metaDicts EXCEPT ![ref] = DictPop(@, a.key)]
                 /\ threadObjs' = MarkDirty
            ELSE UNCHANGED <<threadObjs, metaDicts>>
    /\ Ran("unmeta")
    /\ UNCHANGED <<threads, current, nameDicts, attLists>>
    /\ UNCHANGED <<saveVars, nonShellVars>>

\* arguments of name as typed: nothing, a role and a name, a role alone, an
\* unknown role and a name
NameArgs == { <<>>, <<"user", "N">>, <<"user">>, <<"x", "N">> }

\* Gptcmd._validate_role
_validate_role(role) == role \in MessageRole

\* Gptcmd.do_name; supported tells whether the account's provider has the
\* MESSAGE_NAME_FIELD feature.  The dict the thread refers to is changed in
\* place and the thread's dirty flag is not touched.
do_name ==
    /\ CanRun
    /\ \E t \in NameArgs, supported \in BOOLEAN :
        IF t = <<>> \/ ~supported THEN UNCHANGED nameDicts
        ELSE IF Len(t) # 2 \/ ~_validate_role(t[1]) THEN UNCHANGED nameDicts
        ELSE nameDicts' =
                [nameDicts EXCEPT ![CurrentThread.names] = DictSet(@, t[1], t[2])]
    /\ Ran("name")
    /\ UNCHANGED <<threadObjs, threads, current, attLists, metaDicts>>
    /\ UNCHANGED <<saveVars, nonShellVars>>

\* Gptcmd.do_unname: without an argument the thread gets a new empty dict
\* (and the lookup of "" that follows finds nothing); with one, the key is
\* deleted from the dict the thread refers to
do_unname ==
    /\ CanRun
    /\ \E arg \in {"", "user", "assistant"}, supported \in BOOLEAN :
        IF ~supported THEN UNCHANGED <<threadObjs, nameDicts>>
        ELSE IF arg = ""
        THEN /\ nameDicts' = Append(nameDicts, EmptyDict)
             /\ threadObjs' =
                    [threadObjs EXCEPT ![current].names = Len(nameDicts) + 1]
        ELSE IF Get(nameDicts[CurrentThread.names], arg) = None
        THEN UNCHANGED <<threadObjs, nameDicts>>
        ELSE /\ nameDicts' =
                    [nameDicts EXCEPT ![CurrentThread.names] = DictPop(@, arg)]
             /\ UNCHANGED threadObjs
    /\ Ran("unname")
    /\ UNCHANGED <<threads, current, attLists, metaDicts>>
    /\ UNCHANGED <<saveVars, nonShellVars>>

\* Gptcmd.do_pop: int(arg) raises ValueError for a word; a positive number
\* is 1-based
do_pop ==
    /\ CanRun
    /\ \E arg \in Refs \cup {<<IntTok(-1)>>, <<Word("x")>>} :
        LET n == IF arg = <<>> THEN NoneInt
                 ELSE IF arg[1].int > 0 THEN Some(arg[1].int - 1)
                 ELSE Some(arg[1].int)
        IN  IF CurrentThread.messages = <<>> THEN UNCHANGED threadObjs
            ELSE IF arg # <<>> /\ arg[1].kind # "int" THEN UNCHANGED threadObjs
            ELSE threadObjs' =
                    WithOutcome(current,
                        pop(CurrentThread.messages, CurrentThread.dirty, n))
    /\ Ran("pop")
    /\ UNCHANGED <<threads, current, nameDicts, attLists, metaDicts>>
    /\ UNCHANGED <<saveVars, nonShellVars>>

\* do_clear that hands the messages setter an empty list
do_clear_DropsStickys ==
    /\ CanRun
    /\ \E can_clear \in BOOLEAN :
        LET kept == stickys(CurrentThread.messages)
            length == Len(CurrentThread.messages) - Len(kept)
        IN  IF length < 1 \/ ~can_clear THEN UNCHANGED threadObjs
            ELSE threadObjs' =
                    WithOutcome(current, Outcome(<<>>, TRUE, <<>>, NoError))
    /\ Ran("clear")
    /\ UNCHANGED <<threads, current, nameDicts, attLists, metaDicts>>
    /\ UNCHANGED <<saveVars, nonShellVars>>

\* Gptcmd.do_clear; can_clear is the answer to the confirmation.  The
\* messages setter marks the thread dirty.
do_clear ==
    /\ CanRun
    /\ \E can_clear \in BOOLEAN :
        LET kept == stickys(CurrentThread.messages)
            length == Len(CurrentThread.messages) - Len(kept)
        IN  IF length < 1 \/ ~can_clear THEN UNCHANGED threadObjs
            ELSE threadObjs' =
                    WithOutcome(current, Outcome(kept, TRUE, <<>>, NoError))
    /\ Ran("clear")
    /\ UNCHANGED <<threads, current, nameDicts, attLists, metaDicts>>
    /\ UNCHANGED <<saveVars, nonShellVars>>

\* Gptcmd.do_move
do_move ==
    /\ CanRun
    /\ \E arg \in Moves :
        LET r == _user_range_to_python_range(arg, FALSE, FALSE)
            length == Len(CurrentThread.messages)
            i0 == IF r.start = NoneInt THEN 0 ELSE r.start[1]
            j0 == IF r.end = NoneInt THEN length ELSE r.end[1]
            i == IF i0 < 0 THEN i0 + length ELSE i0
            j == IF j0 < 0 THEN j0 + length
                 ELSE IF j0 > 0 THEN j0 - 1 ELSE j0
        IN  /\ RanOn("move", Typed(arg))
            /\ IF arg = <<>> \/ r.err # NoError THEN UNCHANGED threadObjs
               ELSE IF ~(0 <= j /\ j <= length) THEN UNCHANGED threadObjs
               ELSE threadObjs' =
                       WithOutcome(current,
                           move(CurrentThread.messages, CurrentThread.dirty,
                                Some(i), Some(j)))
    /\ UNCHANGED <<threads, current, nameDicts, attLists, metaDicts>>
    /\ UNCHANGED <<saveVars, nonShellVars>>

\* Gptcmd.do_delete; can_delete is the answer to the confirmation
do_delete ==
    /\ CanRun
    /\ \E arg \in ThreadKeys \cup {""}, can_delete \in BOOLEAN :
        IF threads = EmptyDict THEN UNCHANGED <<threads, current>>
        ELSE IF arg = ""
        THEN IF can_delete
             THEN /\ threads' = EmptyDict
                  /\ current' = 1
             ELSE UNCHANGED <<threads, current>>
        ELSE IF arg \in DOMAIN threads
        THEN /\ current' = IF threads[arg] = current THEN 1 ELSE current
             /\ threads' = DictPop(threads, arg)
        ELSE UNCHANGED <<threads, current>>
    /\ Ran("delete")
    /\ UNCHANGED <<threadObjs, nameDicts, attLists, metaDicts>>
    /\ UNCHANGED <<saveVars, nonShellVars>>

\* the thread objects after do_save has written the file: every thread of
\* _threads is clean
Saved(objs, map) ==
    [t \in 1..Len(objs) |->
        IF \E k \in DOMAIN map : map[k] = t
        THEN [objs[t] EXCEPT !.dirty = FALSE]
        ELSE objs[t]]

\* a save that writes the detached thread along with the named threads
Save_DetachedToo(objs, map, path, written) ==
    IF map = EmptyDict THEN UNCHANGED <<threadObjs, file, last_path>>
    ELSE IF path = "" /\ last_path = None
    THEN UNCHANGED <<threadObjs, file, last_path>>
    ELSE IF ~written THEN UNCHANGED <<threadObjs, file, last_path>>
    ELSE /\ file' = DictSet(map, objs[1].name, 1)
         /\ threadObjs' = Saved(objs, map)
         /\ last_path' = IF path = "" THEN last_path ELSE path

\* the body of Gptcmd.do_save for the thread map and thread objects given;
\* path is the argument ("": none) and written tells whether the file
\* could be written
Save(objs, map, path, written) ==
    IF map = EmptyDict THEN UNCHANGED <<threadObjs, file, last_path>>
    ELSE IF path = "" /\ last_path = None
    THEN UNCHANGED <<threadObjs, file, last_path>>
    ELSE IF ~written THEN UNCHANGED <<threadObjs, file, last_path>>
    ELSE /\ file' = map
         /\ threadObjs' = Saved(objs, map)
         /\ last_path' = IF path = "" THEN last_path ELSE path

\* Gptcmd.do_save
do_save ==
    /\ CanRun
    /\ \E path \in {"", "f"}, written \in BOOLEAN :
        Save(threadObjs, threads, path, written)
    /\ Ran("save")
    /\ UNCHANGED <<threads, current, nameDicts, attLists, metaDicts, session>>
    /\ UNCHANGED nonShellVars

\* Gptcmd.do_edit on "." : _user_range_to_python_range gives (None, None),
\* messages[None] raises TypeError, which do_edit does not catch; the
\* exception leaves cmdloop
do_edit_raises ==
    /\ CanRun
    /\ _user_range_to_python_range(<<Dot>>, TRUE, TRUE).start = NoneInt
    /\ session' = "raised"
    /\ Ran("edit")
    /\ UNCHANGED <<threadObjs, threads, current, nameDicts, attLists,
                   metaDicts, file, last_path>>
    /\ UNCHANGED nonShellVars

\* the key _write_crash_dump stores the detached thread under
detached_key == "__detached__"

\* main's handler of an exception that left cmdloop: when a thread is dirty
\* _write_crash_dump puts the detached thread, if it has messages, into
\* _threads with its dirty flag cleared, calls do_save, and then restores
\* the flag and removes the entry
main_except ==
    /\ session = "raised"
    /\ session' = "exited"
    /\ \E written \in BOOLEAN :
        LET should_save ==
                \/ threadObjs[1].messages # <<>> /\ threadObjs[1].dirty
                \/ \E k \in DOMAIN threads :
                        /\ threadObjs[threads[k]].messages # <<>>
                        /\ threadObjs[threads[k]].dirty
            detached_added == threadObjs[1].messages # <<>>
            original_dirty == threadObjs[1].dirty
            map == IF detached_added THEN DictSet(threads, detached_key, 1)
                   ELSE threads
            objs == IF detached_added
                    THEN [threadObjs EXCEPT ![1].dirty = FALSE]
                    ELSE threadObjs
        IN  IF ~should_save THEN UNCHANGED <<threadObjs, file, last_path>>
            ELSE IF map = EmptyDict \/ ~written
            THEN UNCHANGED <<threadObjs, file, last_path>>
            ELSE /\ file' = map
                 /\ threadObjs' =
                        [Saved(objs, map) EXCEPT ![1].dirty = original_dirty]
                 /\ last_path' = "gptcmd-ts.json"
    /\ UNCHANGED <<threads, current, nameDicts, attLists, metaDicts, cmd,
                   cmdArg, ncmds>>
    /\ UNCHANGED nonShellVars

NextShell ==
    \/ do_user
    \/ do_assistant
    \/ do_thread
    \/ do_copy
    \/ do_edit
    \/ do_rename
    \/ do_sticky
    \/ do_unsticky
    \/ do_image
    \/ do_audio
    \/ do_meta
    \/ do_unmeta
    \/ do_name
    \/ do_unname
    \/ do_pop
    \/ do_clear
    \/ do_move
    \/ do_delete
    \/ do_save
    \/ do_edit_raises
    \/ main_except

ShellSpec == InitShell /\ [][NextShell]_vars

(***************************************************************************)
(* Views used by the claims about the shell                                *)
(***************************************************************************)
\* message m as a reader of its thread sees it: the attachments list and
\* the metadata dict it refers to read out
Deref(m) ==
    [content |-> m.content, role |-> m.role, name |-> m.name,
     sticky |-> m.sticky, attachments |-> attLists[m.attachments],
     metadata |-> metaDicts[m.metadata]]

\* the messages of thread t as a reader sees them
ThreadView(t) ==
    [i \in 1..Len(threadObjs[t].messages) |-> Deref(threadObjs[t].messages[i])]

\* the commands that change a field of a message of the current thread
FieldCommands ==
    {"edit", "rename", "sticky", "unsticky", "image", "audio", "meta",
     "unmeta"}

\* C10: messages copied between threads (by copy, or by thread creating a
\* named thread) are value copies: a command that changes a field of a
\* message of the current thread (content, name, sticky, attachments,
\* metadata) leaves every message of every other thread as it was, be it
\* the copy or the original
C10_CopiesAreValueCopies ==
    [][cmd' \in FieldCommands =>
        \A t \in 1..Len(threadObjs) :
            t # current => ThreadView(t)' = ThreadView(t)]_vars

\* the name map of thread t as a reader sees it
NameMap(t) == nameDicts[threadObjs[t].names]

\* the commands that change the message list or the name map of the
\* current thread
ListCommands == {"name", "unname", "user", "assistant", "pop", "clear", "move"}

\* C11: a named thread made by the thread command holds a snapshot of the
\* messages and the name map of the thread it was made from: a later name,
\* unname, user, assistant, pop, clear or move in one thread leaves the
\* message list and the name map of every other thread as they were
C11_ThreadIsSnapshot ==
    [][cmd' \in ListCommands =>
        \A t \in 1..Len(threadObjs) :
            t # current =>
                /\ threadObjs'[t].messages = threadObjs[t].messages
                /\ NameMap(t)' = NameMap(t)]_vars

(***************************************************************************)
(* The detached thread                                                     *)
(***************************************************************************)
\* the detached thread is the one thread object made by Gptcmd.__init__, it
\* is no entry of _threads, and thread without an argument has made it the
\* current thread
DetachedIsSingleton ==
    /\ threadObjs[1].name = "*detached*"
    /\ \A t \in 2..Len(threadObjs) : threadObjs[t].name # "*detached*"
    /\ \A k \in DOMAIN threads : threads[k] # 1
    /\ (cmd = "thread" /\ cmdArg = "" => current = 1)

C12_WitnessCrashDump ==
    /\ session = "exited"
    /\ detached_key \in DOMAIN file
    /\ file[detached_key] = 1

(***************************************************************************)
(* The dirty flag of the threads of the shell                              *)
(***************************************************************************)
\* what thread t holds: its messages with their attachments and metadata
\* read out, and its name map
Content(t) == <<ThreadView(t), NameMap(t)>>

\* C14: a thread is dirty after every command that changed what it holds
\* (its message list, a field, the attachments or the metadata of one of
\* its messages, or its name map), and a thread made by a command with
\* messages in it is dirty
C14_DirtyWhenChanged ==
    [][ncmds' = ncmds + 1 =>
        \A t \in 1..Len(threadObjs') :
            \/ t <= Len(threadObjs) /\ Content(t)' = Content(t)
            \/ t > Len(threadObjs) /\ threadObjs'[t].messages = <<>>
            \/ threadObjs'[t].dirty]_vars

(***************************************************************************)
(* MessageThread.clear and the dirty flag                                  *)
(***************************************************************************)
\* C13: clear() marks the thread dirty if it removed anything, and a
\* clear() that removes nothing (the thread is empty, or all its messages
\* are sticky) leaves the dirty flag as it was before the call
C13_ClearDirtyIffRemoved ==
    Returned("clear") =>
        /\ (messages # pre.messages => dirty)
        /\ (messages = pre.messages => dirty = pre.dirty)

(***************************************************************************)
(* RangeSpec: Gptcmd._user_range_to_python_range is called once on a       *)
(* reference of up to three tokens.                                        *)
(***************************************************************************)
\* integer tokens range over -MaxTok .. MaxTok
MaxTok == 3

\* the claims slice sequences of up to MaxSeq messages
MaxSeq == 5

\* the tokens a reference is made of
Tokens == {Dot, Word("x")} \cup { IntTok(n) : n \in -MaxTok..MaxTok }

InitRange ==
    /\ StoreIdle
    /\ SerialIdle
    /\ ShellIdle
    /\ MacroIdle
    /\ FormatIdle
    /\ CostIdle
    /\ CallsIdle
    /\ rangePc = "called"
    /\ rangeArgs \in { <<[tokens |-> t, allow_single |-> a, strict_range |-> r]>> :
                        t \in SeqsUpTo(Tokens, 3), a \in BOOLEAN,
                        r \in BOOLEAN }
    /\ rangeOut = <<>>

\* the call returns or raises
Resolve ==
    /\ rangePc = "called"
    /\ rangePc' = "done"
    /\ rangeOut' = <<_user_range_to_python_range(rangeArgs[1].tokens,
                                                 rangeArgs[1].allow_single,
                                                 rangeArgs[1].strict_range)>>
    /\ UNCHANGED rangeArgs
    /\ UNCHANGED <<storeVars, serialVars, shellVars, macroVars, formatVars,
                   costVars, callVars>>

NextRange == Resolve

RangeSpec == InitRange /\ [][NextRange]_vars

\* the call is over and its reference was made of the tokens toks
Resolved(toks) == rangePc = "done" /\ rangeArgs[1].tokens = toks

\* the call is over and its reference was made of n tokens, each "." or an
\* integer
ResolvedWellFormed(n) ==
    /\ rangePc = "done"
    /\ Len(rangeArgs[1].tokens) = n
    /\ \A k \in 1..n : rangeArgs[1].tokens[k].kind \in {"dot", "int"}

\* a sequence of n messages, each standing for its 1-based position
Numbered(n) == [p \in 1..n |-> p]

\* the 1-based positions of a sequence of n messages that the slice
\* [start:end] returned by the call selects
Selected(n) ==
    SliceRange(Numbered(n), rangeOut[1].start, rangeOut[1].end)

\* C15: for a two-token reference "a b" with positive integers a < b the
\* call returns (a - 1, b), and slicing any sequence of at least b messages
\* with that pair yields exactly the messages at positions a through b
C15_TwoTokenInclusive ==
    \A a \in 1..MaxTok, b \in 1..MaxTok :
        (a < b /\ Resolved(<<IntTok(a), IntTok(b)>>)) =>
            /\ rangeOut[1].err = NoError
            /\ rangeOut[1].start = Some(a - 1)
            /\ rangeOut[1].end = Some(b)
            /\ \A n \in b..MaxSeq : Selected(n) = a..b

\* C15 witness: "2 3" resolved to (1, 3)
C15_Witness ==
    /\ Resolved(<<IntTok(2), IntTok(3)>>)
    /\ rangeArgs[1].strict_range
    /\ rangeOut[1] = PyRange(Some(1), Some(3))

\* C16: a single integer token always fails when allow_single is false;
\* when it is true the call always succeeds, with (n - 1, n) for positive
\* n, (-1, None) for -1 and (n, n + 1) for any other negative n, and the
\* slice holds exactly one message of any sequence long enough to hold it
C16_SingleToken ==
    \A n \in -MaxTok..MaxTok :
        Resolved(<<IntTok(n)>>) =>
            IF ~rangeArgs[1].allow_single
            THEN rangeOut[1].err = "ValueError"
            ELSE /\ rangeOut[1].err = NoError
                 /\ n > 0 => /\ rangeOut[1].start = Some(n - 1)
                             /\ rangeOut[1].end = Some(n)
                 /\ n = -1 => /\ rangeOut[1].start = Some(-1)
                              /\ rangeOut[1].end = NoneInt
                 /\ n < -1 => /\ rangeOut[1].start = Some(n)
                              /\ rangeOut[1].end = Some(n + 1)
                 /\ \A len \in 1..MaxSeq :
                        /\ (n > 0 /\ len >= n) => Selected(len) = {n}
                        /\ (n < 0 /\ len >= -n) =>
                                Selected(len) = {len + 1 + n}

\* C16 witnesses: "-2" with allow_single resolved to (-2, -1), and "2"
\* without allow_single failed
C16_Witness ==
    /\ Resolved(<<IntTok(-2)>>)
    /\ rangeArgs[1].allow_single
    /\ rangeArgs[1].strict_range
    /\ rangeOut[1] = PyRange(Some(-2), Some(-1))

C16_WitnessRefused ==
    /\ Resolved(<<IntTok(2)>>)
    /\ ~rangeArgs[1].allow_single
    /\ rangeOut[1].err = "ValueError"

\* the end token of the reference: the only token, or the second of two
EndToken == rangeArgs[1].tokens[Len(rangeArgs[1].tokens)]

\* C17: when the end of a reference is -1 (the single token "-1", or a
\* two-token reference whose second token is -1) the call succeeds with
\* the end bound None, never a finite integer; any other negative end
\* token e of a reference that resolves gives the finite end bound e + 1
C17_MinusOneIsOpenEnd ==
    /\ (/\ ResolvedWellFormed(1)
        /\ rangeArgs[1].allow_single
        /\ EndToken = IntTok(-1))
       => (rangeOut[1].err = NoError /\ rangeOut[1].end = NoneInt)
    /\ (ResolvedWellFormed(2) /\ EndToken = IntTok(-1))
       => (rangeOut[1].err = NoError /\ rangeOut[1].end = NoneInt)
    /\ \A e \in -MaxTok..-2 :
        (/\ rangePc = "done"
         /\ rangeArgs[1].tokens # <<>>
         /\ EndToken = IntTok(e)
         /\ rangeOut[1].err = NoError)
        => rangeOut[1].end = Some(e + 1)

\* C17 witnesses: "1 -1" under strict_range resolved to (0, None), and
\* "-3 -2" resolved to (-3, -1)
C17_Witness ==
    /\ Resolved(<<IntTok(1), IntTok(-1)>>)
    /\ rangeArgs[1].strict_range
    /\ rangeOut[1] = PyRange(Some(0), NoneInt)

C17_WitnessFinite ==
    /\ Resolved(<<IntTok(-3), IntTok(-2)>>)
    /\ rangeArgs[1].strict_range
    /\ rangeOut[1] = PyRange(Some(-3), Some(-1))

\* the bound a start token stands for, and the bound an end token stands
\* for, as the command reference describes them: positions count from 1
\* and a range includes its end
StartOf(tok) ==
    IF tok.kind = "dot" THEN NoneInt
    ELSE IF tok.int >= 1 THEN Some(tok.int - 1) ELSE Some(tok.int)

EndOf(tok) ==
    IF tok.kind = "dot" \/ tok.int = -1 THEN NoneInt
    ELSE IF tok.int >= 1 THEN Some(tok.int) ELSE Some(tok.int + 1)

\* C18: a well-formed two-token reference fails exactly when strict_range
\* is true and both bounds are finite with start >= end; with strict_range
\* false, or with a bound that is None, it never fails
C18_StrictRange ==
    ResolvedWellFormed(2) =>
        LET start == StartOf(rangeArgs[1].tokens[1])
            end == EndOf(rangeArgs[1].tokens[2])
            backwards == /\ start # NoneInt
                         /\ end # NoneInt
                         /\ start[1] >= end[1]
        IN  /\ (rangeOut[1].err # NoError)
                <=> (rangeArgs[1].strict_range /\ backwards)
            /\ rangeOut[1].err = NoError =>
                (rangeOut[1].start = start /\ rangeOut[1].end = end)

\* C18 witnesses: "2 1" failed under strict_range (start 1 = end 1) and
\* resolved to (1, 1) without it
C18_Witness ==
    /\ Resolved(<<IntTok(2), IntTok(1)>>)
    /\ rangeArgs[1].strict_range
    /\ rangeOut[1].err = "ValueError"

C18_WitnessLax ==
    /\ Resolved(<<IntTok(2), IntTok(1)>>)
    /\ ~rangeArgs[1].strict_range
    /\ rangeOut[1] = PyRange(Some(1), Some(1))

\* C37: with strict_range true, a two-token reference whose start token
\* is a positive integer and whose end token is a negative integer other
\* than -1 fails with the range error; without strict_range the same
\* reference resolves, and the pair it resolves to selects messages of a
\* sequence that is long enough
C37_PositiveToNegativeRejected ==
    (/\ ResolvedWellFormed(2)
     /\ rangeArgs[1].tokens[1].kind = "int"
     /\ rangeArgs[1].tokens[2].kind = "int"
     /\ rangeArgs[1].tokens[1].int >= 1
     /\ rangeArgs[1].tokens[2].int <= -2)
    => IF rangeArgs[1].strict_range
       THEN rangeOut[1] = RangeError
       ELSE /\ rangeOut[1].err = NoError
            /\ Selected(rangeArgs[1].tokens[1].int
                         - rangeArgs[1].tokens[2].int) # {}

\* "2 -2" failed under strict_range
C37_Witness ==
    /\ Resolved(<<IntTok(2), IntTok(-2)>>)
    /\ rangeArgs[1].strict_range
    /\ rangeOut[1] = RangeError

\* C19: a reference of no token or of more than two tokens, or with a
\* token that is neither "." nor an integer, always fails and yields no
\* pair; the single token "." always resolves to (None, None), also when
\* allow_single is false
C19_MalformedFailsDotIsAll ==
    rangePc = "done" =>
        LET toks == rangeArgs[1].tokens
        IN  /\ (\/ Len(toks) = 0
                \/ Len(toks) > 2
                \/ \E k \in 1..Len(toks) : toks[k].kind = "word")
               => rangeOut[1] = RangeError
            /\ toks = <<Dot>> => rangeOut[1] = PyRange(NoneInt, NoneInt)

\* C19 witnesses: "." resolved to (None, None) although allow_single was
\* false, and "1 x" failed
C19_Witness ==
    /\ Resolved(<<Dot>>)
    /\ ~rangeArgs[1].allow_single
    /\ rangeOut[1] = PyRange(NoneInt, NoneInt)

C19_WitnessWord ==
    /\ Resolved(<<IntTok(1), Word("x")>>)
    /\ rangeOut[1] = RangeError

(***************************************************************************)
(* The macro formatter (_MacroFormatter).  A field name, the text between  *)
(* the braces of a replacement field, is the tuple of its pieces: decimal  *)
(* digits, names, "?", ".", "[" and "*".                                    *)
(***************************************************************************)
\* how many pieces a field name has
MaxField == 3

\* the decimal digits
Digits == { ToString(n) : n \in 0..9 }

\* the pieces of the field names
FieldPieces == {"0", "1", "2", "n", "m", "d", "?", ".", "*"}

\* the text the pieces in s make
RECURSIVE Text(_)
Text(s) == IF s = <<>> THEN "" ELSE s[1] \o Text(Tail(s))

\* c in s
Contains(s, c) == \E i \in 1..Len(s) : s[i] = c

\* str.isdecimal
isdecimal(s) == s # <<>> /\ \A i \in 1..Len(s) : s[i] \in Digits

\* int(s) for a decimal s
RECURSIVE int(_)
int(s) ==
    IF s = <<>> THEN 0
    ELSE 10 * int(SubSeq(s, 1, Len(s) - 1))
            + (CHOOSE n \in 0..9 : ToString(n) = s[Len(s)])

\* shlex.join(args) for arguments that need no quoting
RECURSIVE shlex_join(_)
shlex_join(args) ==
    IF args = <<>> THEN ""
    ELSE IF Len(args) = 1 THEN args[1]
    ELSE args[1] \o " " \o shlex_join(Tail(args))

\* what a lookup or an expansion gives: a text, or the MacroError raised
Text_(t) == [err |-> NoError, value |-> t]

RaisedMacroError(msg) == [err |-> "MacroError", value |-> msg]

\* _MacroFormatter.get_value; kwargs maps names to texts
get_value(key, args, kwargs) ==
    IF key = <<"*">> THEN Text_(shlex_join(args))
    ELSE IF isdecimal(key)
    THEN IF int(key) <= 0 THEN RaisedMacroError("Invalid argument index")
         ELSE IF int(key) - 1 >= Len(args)
         THEN RaisedMacroError("Missing positional argument")
         ELSE Text_(args[int(key)])
    ELSE IF Text(key) \in DOMAIN kwargs THEN Text_(kwargs[Text(key)])
    ELSE RaisedMacroError("Undefined name")

\* _MacroFormatter.get_field
get_field(field_name, args, kwargs) ==
    IF Contains(field_name, ".") \/ Contains(field_name, "[")
    THEN RaisedMacroError(
            "Attribute and item access have not been implemented")
    ELSE LET has_default == Contains(field_name, "?")
             parts == Split(field_name, "?")
             name == parts[1]
             default == Text(SubSeq(field_name, Len(name) + 2,
                                    Len(field_name)))
             obj == get_value(name, args, kwargs)
         IN  IF obj.err = NoError THEN obj
             ELSE IF ~has_default THEN obj
             ELSE Text_(default)

\* string.Formatter.vformat on the template "{" + field_name + "}": an
\* empty field name is numbered automatically, from 0
expand(field_name, args, kwargs) ==
    IF field_name = <<>> THEN get_field(<<"0">>, args, kwargs)
    ELSE get_field(field_name, args, kwargs)

(***************************************************************************)
(* FormatSpec: one replacement field is expanded                            *)
(***************************************************************************)
\* the arguments of a macro
MacroArgs == { <<>>, <<"hello">>, <<"hello", "x">> }

\* the names bound while a macro runs
Bindings == { EmptyDict, [k \in {"n"} |-> "N"] }

InitFormat ==
    /\ StoreIdle
    /\ SerialIdle
    /\ ShellIdle
    /\ RangeIdle
    /\ MacroIdle
    /\ CostIdle
    /\ CallsIdle
    /\ fmtPc = "called"
    /\ fmtArgs \in { <<[field_name |-> f, args |-> a, kwargs |-> k]>> :
                        f \in SeqsUpTo(FieldPieces, MaxField),
                        a \in MacroArgs, k \in Bindings }
    /\ fmtOut = <<>>

\* the field is expanded
Expand ==
    /\ fmtPc = "called"
    /\ fmtPc' = "done"
    /\ fmtOut' = <<expand(fmtArgs[1].field_name, fmtArgs[1].args,
                          fmtArgs[1].kwargs)>>
    /\ UNCHANGED fmtArgs
    /\ UNCHANGED <<storeVars, serialVars, shellVars, rangeVars, macroVars,
                   costVars, callVars>>

NextFormat == Expand

FormatSpec == InitFormat /\ [][NextFormat]_vars

\* the key of the placeholder expanded: the pieces before the first "?"
KeyOf(f) ==
    IF Contains(f, "?")
    THEN SubSeq(f, 1, (CHOOSE i \in 1..Len(f) :
                            f[i] = "?" /\ \A h \in 1..(i - 1) : f[h] # "?") - 1)
    ELSE f

\* the default of the placeholder expanded: the pieces after the first "?"
DefaultOf(f) == SubSeq(f, Len(KeyOf(f)) + 2, Len(f))

\* the key of {N}, {name} or {key?default}: digits and letters
IsNumberOrName(key) ==
    key # <<>> /\ \A i \in 1..Len(key) : key[i] \in Digits \cup {"n", "m", "d"}

\* the key is a number N with 1 <= N <= number of arguments, or a bound name
LookupSucceeds(f, args, kwargs) ==
    \/ isdecimal(KeyOf(f)) /\ int(KeyOf(f)) \in 1..Len(args)
    \/ ~isdecimal(KeyOf(f)) /\ Text(KeyOf(f)) \in DOMAIN kwargs

\* C27: a placeholder {N}, {name} or {key?default} expands in one of three
\* ways: to the N-th argument or the binding of the name when the lookup
\* succeeds; to the literal default text when the lookup fails and there
\* is a default; to an error, never to an empty text, when the lookup
\* fails and there is none.  Arguments no placeholder uses are no error.
C27_ThreeOutcomes ==
    fmtPc = "done" /\ IsNumberOrName(KeyOf(fmtArgs[1].field_name)) =>
        LET f == fmtArgs[1].field_name
            args == fmtArgs[1].args
            kwargs == fmtArgs[1].kwargs
            out == fmtOut[1]
        IN  IF LookupSucceeds(f, args, kwargs)
            THEN out = Text_(IF isdecimal(KeyOf(f)) THEN args[int(KeyOf(f))]
                             ELSE kwargs[Text(KeyOf(f))])
            ELSE IF Contains(f, "?")
            THEN out = Text_(Text(DefaultOf(f)))
            ELSE out.err = "MacroError"

(***************************************************************************)
(* MacroSpec: macro names are typed at the prompt and MacroRunner.run      *)
(* (macros.py) runs their lines, each through Gptcmd.onecmd, which runs a  *)
(* line that names a macro through Gptcmd.default and Gptcmd._run_macro.   *)
(***************************************************************************)
\* how many lines the user types at the prompt
MaxRuns == 2

\* MacroRunner._STACK_DEPTH_LIMIT
_STACK_DEPTH_LIMIT == 10

\* the variables MacroSpec leaves alone
nonMacroVars ==
    <<storeVars, serialVars, shellVars, rangeVars, formatVars, costVars,
      callVars>>

\* the lines of a macro definition: a shell command that is no macro,
\* the name of a macro, quit, a template str.format cannot parse, a
\* comment, a blank line
Cmd(c) == [kind |-> "cmd", text |-> c]

Call(n) == [kind |-> "call", text |-> n]

Quit == [kind |-> "quit", text |-> "quit"]

BadFormat == [kind |-> "format", text |-> "user {"]

Comment == [kind |-> "comment", text |-> "# note"]

Blank == [kind |-> "blank", text |-> ""]

\* a line with replacement fields: its words, each a literal text or a
\* field "{...}"
Lit(w) == [kind |-> "lit", text |-> w]

Field(f) == [kind |-> "field", name |-> f]

Tpl(words) == [kind |-> "tpl", text |-> words]

\* a line "@..." : the tokens shlex.split makes of what follows the prefix
Directive(tokens) == [kind |-> "directive", text |-> tokens]

\* the macros c1, c2, ...: each but the last runs the next one between two
\* commands
ChainLength == _STACK_DEPTH_LIMIT + 1

ChainName(i) == "c" \o ToString(i)

ChainNames == { ChainName(i) : i \in 1..ChainLength }

ChainBody(n) ==
    LET i == CHOOSE k \in 1..ChainLength : ChainName(k) = n
    IN  IF i = ChainLength THEN <<Cmd("user in")>>
        ELSE <<Cmd("user in"), Call(ChainName(i + 1)), Cmd("user out")>>

\* the macros of the session that have fields and directives
FieldMacros ==
    {"greet", "relay", "bind", "where", "emptyd", "unknownd", "fails",
     "fails7"}

\* config.macros: the definitions of the session
macros ==
    [n \in {"rec", "p", "q", "stop", "bad", "outer"} \cup ChainNames
                \cup FieldMacros |->
        CASE n = "rec" -> <<Comment, Cmd("user a"), Call("rec"), Cmd("user b")>>
          [] n = "p" -> <<Cmd("user a"), Call("q"), Cmd("user b")>>
          [] n = "q" -> <<Cmd("user a"), Call("p"), Cmd("user b")>>
          [] n = "stop" -> <<Cmd("user a"), Quit, Cmd("user b")>>
          [] n = "bad" -> <<Cmd("user a"), BadFormat, Cmd("user b")>>
          [] n = "outer" -> <<Call("bad"), Call("stop"), Cmd("user b")>>
          [] n = "greet" ->
                <<Comment, Tpl(<<Lit("user"), Field(<<"1">>)>>), Blank,
                  Cmd("send")>>
          [] n = "relay" ->
                <<Tpl(<<Lit("greet"), Field(<<"1", "?", "d">>)>>),
                  Tpl(<<Lit("user"), Lit("said"), Field(<<"*">>)>>)>>
          [] n = "bind" ->
                <<Tpl(<<Lit("user"), Field(<<"n", "?", "d">>)>>),
                  Directive(<<"Set", "n", "v">>),
                  Tpl(<<Lit("user"), Field(<<"n">>)>>),
                  Directive(<<"set", "thread", "mine">>),
                  Tpl(<<Lit("user"), Field(<<"thread">>)>>)>>
          [] n = "where" ->
                <<Tpl(<<Lit("user"), Field(<<"thread">>),
                        Field(<<"account">>), Field(<<"model">>)>>),
                  Tpl(<<Lit("thread"), Field(<<"1", "?", "">>)>>),
                  Tpl(<<Lit("account"), Field(<<"2", "?", "nobody">>)>>),
                  Tpl(<<Lit("model"), Field(<<"3", "?", "nothing">>)>>),
                  Tpl(<<Lit("user"), Field(<<"thread">>),
                        Field(<<"account">>), Field(<<"model">>)>>)>>
          [] n = "emptyd" -> <<Cmd("user a"), Directive(<<>>), Cmd("user b")>>
          [] n = "unknownd" ->
                <<Comment, Cmd("user a"), Directive(<<"nope", "x">>),
                  Cmd("user b")>>
          [] n = "fails" ->
                <<Comment, Cmd("user a"), Blank, Directive(<<"FAIL">>),
                  Cmd("user b")>>
          [] n = "fails7" ->
                <<Directive(<<"fail", "7">>), Cmd("user b")>>
          [] OTHER -> ChainBody(n)]

\* the macro names the user types
TopLevel ==
    {"rec", "p", "stop", "bad", "outer", ChainName(1)} \cup FieldMacros

\* the arguments the user types after the name
TypedArgs(name) ==
    IF name \in {"greet", "relay"} THEN {<<>>, <<"hello">>, <<"hello", "x">>}
    ELSE IF name = "where"
    THEN {<<>>, <<"t">>, <<"t", "work">>, <<"t", "work", "m2">>,
          <<"u", "other", "m1">>}
    ELSE {<<>>}

\* a _split that keeps the comments
_split_KeepsComments(definition) ==
    SelectSeq(definition, LAMBDA l : l.kind # "blank")

\* MacroRunner._split: the lines of a definition that are neither blank
\* nor comments
_split(definition) ==
    SelectSeq(definition, LAMBDA l : l.kind \notin {"comment", "blank"})

\* the innermost call of run
Top == stack[Len(stack)]

\* the line the innermost call is at
Line == _split(macros[Top.name])[Top.line]

\* an error _run_macro prints
MacroError(name, line_num, msg) ==
    [macro |-> name, line |-> line_num, error |-> msg]

\* config.accounts
Accounts == {"default", "work"}

\* provider.valid_models, the same for every account
valid_models == {"m1", "m2"}

\* Gptcmd.cmdloop before the first line
InitMacro ==
    /\ StoreIdle
    /\ SerialIdle
    /\ ShellIdle
    /\ RangeIdle
    /\ FormatIdle
    /\ CostIdle
    /\ CallsIdle
    /\ stack = <<>>
    /\ _depth = 0
    /\ _active_macros = {}
    /\ log = <<>>
    /\ printed = <<>>
    /\ result = "none"
    /\ macroPc = "prompt"
    /\ nruns = 0
    /\ _shell = [thread |-> "", account |-> "default",
                 model |-> [a \in Accounts |-> "m1"]]

\* built-in names that give what the session started with
_MacroBuiltins_Snapshot(key) ==
    CASE key = "thread" -> ""
      [] key = "model" -> "m1"
      [] key = "account" -> "default"

\* _MacroBuiltins.__getitem__ for a key of _BUILTINS
_MacroBuiltins(key) ==
    CASE key = "thread" -> _shell.thread
      [] key = "model" -> _shell.model[_shell.account]
      [] key = "account" -> _shell.account

\* the keys of _MacroBuiltins._BUILTINS
_BUILTINS == {"thread", "model", "account"}

\* _MacroEnvironment as one map: ChainMap looks a key up in the first map,
\* user, and then in the built-in names
_MacroEnvironment(user) ==
    [k \in DOMAIN user \cup _BUILTINS |->
        IF k \in DOMAIN user THEN user[k] ELSE _MacroBuiltins(k)]

\* string.Formatter.vformat on the words of a line: the words of the
\* rendered line, or the first error
RECURSIVE vformat(_, _, _)
vformat(words, args, kwargs) ==
    IF words = <<>> THEN [err |-> NoError, value |-> <<>>]
    ELSE LET first == IF words[1].kind = "lit" THEN Text_(words[1].text)
                      ELSE expand(words[1].name, args, kwargs)
             rest == vformat(Tail(words), args, kwargs)
         IN  IF first.err # NoError THEN first
             ELSE IF rest.err # NoError THEN rest
             ELSE [err |-> NoError, value |-> <<first.value>> \o rest.value]

\* what the formatter makes of the line the innermost call is at
Rendered ==
    IF Line.kind = "tpl"
    THEN vformat(Line.text, Top.args, _MacroEnvironment(Top.env))
    ELSE [err |-> NoError, value |-> <<Line.text>>]

\* a lookup that tells the spellings of a keyword apart
lower_KeepsCase(keyword) == keyword

\* str.lower on the keywords of this model
lower(keyword) ==
    CASE keyword \in {"Set", "SET"} -> "set"
      [] keyword \in {"Fail", "FAIL"} -> "fail"
      [] OTHER -> keyword

\* the names directives are registered under
Registrations == {"Set", "FAIL"}

\* _MacroDirectiveHandler._registry after register(name) for each of them
_registry == { lower(name) : name \in Registrations }

\* _run_macro whose stack is full one macro later
_run_macro_DepthOffByOne(name, args) ==
    IF name \in _active_macros
    THEN /\ printed' =
                Append(printed, MacroError(name, 0, "Recursive invocation"))
         /\ result' = "continue"
         /\ UNCHANGED <<stack, _depth, _active_macros>>
    ELSE IF _depth > _STACK_DEPTH_LIMIT
    THEN /\ printed' = Append(printed, MacroError(name, 0, "Stack overflow"))
         /\ result' = "continue"
         /\ UNCHANGED <<stack, _depth, _active_macros>>
    ELSE /\ stack' = Append(stack, [name |-> name, line |-> 1, args |-> args,
                                    env |-> EmptyDict, entry |-> _depth])
         /\ _depth' = _depth + 1
         /\ _active_macros' = _active_macros \cup {name}
         /\ UNCHANGED <<printed, result>>

\* _run_macro with a run that does not look for the macro among those
\* executing
_run_macro_NoRecursionCheck(name, args) ==
    IF _depth >= _STACK_DEPTH_LIMIT
    THEN /\ printed' = Append(printed, MacroError(name, 0, "Stack overflow"))
         /\ result' = "continue"
         /\ UNCHANGED <<stack, _depth, _active_macros>>
    ELSE /\ stack' = Append(stack, [name |-> name, line |-> 1, args |-> args,
                                    env |-> EmptyDict, entry |-> _depth])
         /\ _depth' = _depth + 1
         /\ _active_macros' = _active_macros \cup {name}
         /\ UNCHANGED <<printed, result>>

\* Gptcmd._run_macro(name, args) up to the first line of the macro: run
\* raises before it starts when the macro is already running or the stack
\* is full, and _run_macro prints the error and returns False
_run_macro(name, args) ==
    IF name \in _active_macros
    THEN /\ printed' =
                Append(printed, MacroError(name, 0, "Recursive invocation"))
         /\ result' = "continue"
         /\ UNCHANGED <<stack, _depth, _active_macros>>
    ELSE IF _depth >= _STACK_DEPTH_LIMIT
    THEN /\ printed' = Append(printed, MacroError(name, 0, "Stack overflow"))
         /\ result' = "continue"
         /\ UNCHANGED <<stack, _depth, _active_macros>>
    ELSE /\ stack' = Append(stack, [name |-> name, line |-> 1, args |-> args,
                                    env |-> EmptyDict, entry |-> _depth])
         /\ _depth' = _depth + 1
         /\ _active_macros' = _active_macros \cup {name}
         /\ UNCHANGED <<printed, result>>

\* a call of run that ends without the finally clause
Leave_KeepsName ==
    /\ stack' = SubSeq(stack, 1, Len(stack) - 1)
    /\ _depth' = _depth - 1
    /\ UNCHANGED _active_macros

\* the innermost call of run ends: _stack_frame and the finally clause
Leave ==
    /\ stack' = SubSeq(stack, 1, Len(stack) - 1)
    /\ _depth' = _depth - 1
    /\ _active_macros' = _active_macros \ {Top.name}

\* the innermost call of run goes on to its next line
Advance == stack' = [stack EXCEPT ![Len(stack)].line = @ + 1]

\* an except clause that sets the line number of every error
Annotated_Overwrites(e_line_num, line_num) == line_num

\* the except clause of the line loop: the line number an error leaves
\* run with, given the one it carries (0: None)
Annotated(e_line_num, line_num) ==
    IF e_line_num = 0 THEN line_num ELSE e_line_num

\* a _run_macro that returns True after it has printed the error
Raise_Stops(e_line_num, msg) ==
    /\ Leave
    /\ printed' =
            Append(printed,
                   MacroError(Top.name, Annotated(e_line_num, Top.line), msg))
    /\ result' = "stop"

\* a MacroError raised at the line the innermost call is at leaves run and
\* is printed by the _run_macro that called it, which returns False
Raise(e_line_num, msg) ==
    /\ Leave
    /\ printed' =
            Append(printed,
                   MacroError(Top.name, Annotated(e_line_num, Top.line), msg))
    /\ result' = "continue"

\* a line that names a macro is typed at the prompt: Gptcmd.default
default ==
    /\ macroPc = "prompt"
    /\ nruns < MaxRuns
    /\ \E name \in TopLevel : \E args \in TypedArgs(name) :
            _run_macro(name, args)
    /\ macroPc' = "running"
    /\ nruns' = nruns + 1
    /\ UNCHANGED <<log, _shell>>
    /\ UNCHANGED nonMacroVars

\* Gptcmd.onecmd on the words of a rendered line: a macro's name with its
\* arguments, quit (can_exit is what do_quit returns), thread, account,
\* model or another command
onecmd(rendered) ==
    LET arg == IF Len(rendered) > 1 THEN rendered[2] ELSE ""
    IN  \E can_exit \in BOOLEAN :
            CASE rendered[1] \in DOMAIN macros ->
                    /\ _run_macro(rendered[1], Tail(rendered))
                    /\ UNCHANGED _shell
              [] rendered[1] = "quit" ->
                    /\ IF can_exit
                       THEN Leave /\ result' = "stop"
                       ELSE Advance
                                /\ UNCHANGED <<_depth, _active_macros, result>>
                    /\ UNCHANGED <<printed, _shell>>
              [] rendered[1] = "thread" ->
                    /\ _shell' = [_shell EXCEPT !.thread = arg]
                    /\ Advance
                    /\ UNCHANGED <<_depth, _active_macros, printed, result>>
              [] rendered[1] = "account" ->
                    /\ _shell' = IF arg \in Accounts
                                 THEN [_shell EXCEPT !.account = arg]
                                 ELSE _shell
                    /\ Advance
                    /\ UNCHANGED <<_depth, _active_macros, printed, result>>
              [] rendered[1] = "model" ->
                    /\ _shell' = IF arg \in valid_models
                                 THEN [_shell EXCEPT
                                            !.model[_shell.account] = arg]
                                 ELSE _shell
                    /\ Advance
                    /\ UNCHANGED <<_depth, _active_macros, printed, result>>
              [] OTHER ->
                    /\ Advance
                    /\ UNCHANGED <<_depth, _active_macros, printed, result,
                                   _shell>>

\* the directive registered as "set": args are a name and a text, and the
\* name is bound in the first map of env
directive_set(args) ==
    /\ stack' = [stack EXCEPT ![Len(stack)].env = DictSet(@, args[1], args[2]),
                              ![Len(stack)].line = @ + 1]
    /\ UNCHANGED <<_depth, _active_macros, printed, result>>

\* the directive registered as "fail": it raises a MacroError, with the
\* line number its argument gives if it has one
directive_fail(args) ==
    Raise(IF args = <<>> THEN 0 ELSE int(args), "failed")

\* _MacroDirectiveHandler.run on the tokens of a directive line
_MacroDirectiveHandler_run(tokens) ==
    IF tokens = <<>>
    THEN Raise(0, "Empty directive specification") /\ UNCHANGED log
    ELSE IF lower(tokens[1]) \notin _registry
    THEN Raise(0, "Unknown directive") /\ UNCHANGED log
    ELSE /\ log' = Append(log, [macro |-> Top.name, line |-> Top.line,
                                to |-> "directive",
                                text |-> <<lower(tokens[1])>> \o Tail(tokens)])
         /\ IF lower(tokens[1]) = "set" THEN directive_set(Tail(tokens))
            ELSE directive_fail(Tail(tokens))

\* MacroRunner.run at the line it is at: a directive goes to the directive
\* handler, any other line is formatted and passed to onecmd
run_line ==
    /\ macroPc = "running"
    /\ stack # <<>>
    /\ result = "none"
    /\ Top.line <= Len(_split(macros[Top.name]))
    /\ CASE Line.kind = "directive" ->
                /\ _MacroDirectiveHandler_run(Line.text)
                /\ UNCHANGED _shell
          [] Line.kind = "format" ->
                /\ Raise(0, "Invalid format string")
                /\ UNCHANGED <<log, _shell>>
          [] OTHER ->
                IF Rendered.err # NoError
                THEN Raise(0, Rendered.value) /\ UNCHANGED <<log, _shell>>
                ELSE /\ log' = Append(log, [macro |-> Top.name,
                                            line |-> Top.line,
                                            to |-> "onecmd",
                                            text |-> Rendered.value])
                     /\ onecmd(Rendered.value)
    /\ UNCHANGED <<macroPc, nruns>>
    /\ UNCHANGED nonMacroVars

\* MacroRunner.run is past its last line and returns False
run_returns ==
    /\ macroPc = "running"
    /\ stack # <<>>
    /\ result = "none"
    /\ Top.line > Len(_split(macros[Top.name]))
    /\ Leave
    /\ result' = "continue"
    /\ UNCHANGED <<log, printed, macroPc, nruns, _shell>>
    /\ UNCHANGED nonMacroVars

\* a run that goes on to its next line whatever onecmd returned
onecmd_returned_IgnoresStop ==
    /\ macroPc = "running"
    /\ stack # <<>>
    /\ result # "none"
    /\ Advance
    /\ result' = "none"
    /\ UNCHANGED <<_depth, _active_macros>>
    /\ UNCHANGED <<log, printed, macroPc, nruns, _shell>>
    /\ UNCHANGED nonMacroVars

\* onecmd has returned to the call of run that passed it a macro's name:
\* run returns True if it got True and goes on to the next line otherwise
onecmd_returned ==
    /\ macroPc = "running"
    /\ stack # <<>>
    /\ result # "none"
    /\ IF result = "stop"
       THEN Leave /\ UNCHANGED result
       ELSE Advance /\ result' = "none" /\ UNCHANGED <<_depth, _active_macros>>
    /\ UNCHANGED <<log, printed, macroPc, nruns, _shell>>
    /\ UNCHANGED nonMacroVars

\* onecmd has returned to cmdloop, which stops if it got True
cmdloop ==
    /\ macroPc = "running"
    /\ stack = <<>>
    /\ result # "none"
    /\ macroPc' = IF result = "stop" THEN "stopped" ELSE "prompt"
    /\ result' = "none"
    /\ UNCHANGED <<stack, _depth, _active_macros, log, printed, nruns, _shell>>
    /\ UNCHANGED nonMacroVars

NextMacro ==
    \/ default
    \/ run_line
    \/ run_returns
    \/ onecmd_returned
    \/ cmdloop

MacroSpec == InitMacro /\ [][NextMacro]_vars

\* the number of the line of macro name that line number n of its body is
\* after and that names the macro itself, if there is one
SelfInvokedBefore(name, n) ==
    \E k \in 1..(n - 1) :
        LET l == _split(macros[name])[k]
        IN  l.kind = "call" /\ l.text = name

\* C20: a macro that names itself in its body does not run inside itself
\* (no macro is twice among the calls in progress, so the inner invocation
\* runs none of its lines) and no line of the macro after the line that
\* names it is passed to the shell: the recursion error ends the macro
C20_SelfInvocationAborts ==
    /\ \A i, j \in 1..Len(stack) : i # j => stack[i].name # stack[j].name
    /\ \A i \in 1..Len(log) : ~SelfInvokedBefore(log[i].macro, log[i].line)

\* macro name has passed a line to the shell
Dispatched(name) == \E i \in 1..Len(log) : log[i].macro = name

\* the errors printed for a full stack
Overflows == { i \in 1..Len(printed) : printed[i].error = "Stack overflow" }

\* C21: macros never run more than _STACK_DEPTH_LIMIT deep: in the chain
\* c1, c2, ... of macros each naming the next, the first ten start running
\* and the eleventh is refused with a stack overflow error before any of
\* its lines is formatted or passed to the shell
C21_DepthLimit ==
    /\ Len(stack) <= _STACK_DEPTH_LIMIT
    /\ _depth <= _STACK_DEPTH_LIMIT
    /\ ~Dispatched(ChainName(_STACK_DEPTH_LIMIT + 1))
    /\ \A i \in 1..Len(stack) :
            stack[i].name # ChainName(_STACK_DEPTH_LIMIT + 1)
    /\ \A i \in Overflows :
            /\ printed[i].macro = ChainName(_STACK_DEPTH_LIMIT + 1)
            /\ \A k \in 1..(_STACK_DEPTH_LIMIT) : Dispatched(ChainName(k))

\* the eleventh macro of the chain has just been refused: the ten before
\* it are running
C21_Witness ==
    /\ Overflows # {}
    /\ Len(stack) = _STACK_DEPTH_LIMIT
    /\ result = "continue"

\* the innermost call of run ends in this step: it returns or raises
RunExits == Len(stack') = Len(stack) - 1

\* a call of run is refused in this step: it raises before it starts
RunRefused == Len(printed') > Len(printed) /\ Len(stack') = Len(stack)

\* the error printed in this step
Refused == printed'[Len(printed')]

\* no call of run is in progress exactly when no macro is executing
NoneExecuting == stack = <<>> => _active_macros = {} /\ _depth = 0

\* C22 as stated: whenever run for macro m exits, by completion, by a
\* raised error or by an early stop, m is not in the executing set and the
\* depth is what it was at entry; after a top-level invocation the set is
\* empty and the depth 0
C22_Original ==
    /\ [][/\ RunExits =>
                Top.name \notin _active_macros' /\ _depth' = Top.entry
          /\ RunRefused =>
                Refused.macro \notin _active_macros' /\ _depth' = _depth]_vars
    /\ []NoneExecuting

\* C22: whenever a call of run that has entered macro m in the executing
\* set exits, by completion, by a raised error or by an early stop, m is no
\* longer in the set and the depth is what it was at entry; a call refused
\* because m is already executing or the stack is full leaves set and
\* depth as they are (a refused m that is executing stays in the set); the
\* set holds exactly the macros of the calls in progress, so after a
\* top-level invocation it is empty, the depth is 0, and a macro typed at
\* the prompt is never refused
C22_CleanupOnExit ==
    /\ [][/\ RunExits =>
                Top.name \notin _active_macros' /\ _depth' = Top.entry
          /\ RunRefused =>
                /\ UNCHANGED <<_active_macros, _depth>>
                /\ Refused.error = "Stack overflow" =>
                        Refused.macro \notin _active_macros'
          /\ macroPc = "prompt" /\ macroPc' = "running" =>
                Len(stack') = 1 /\ printed' = printed]_vars
    /\ [](/\ _depth = Len(stack)
          /\ _active_macros = { stack[i].name : i \in 1..Len(stack) }
          /\ NoneExecuting)

\* a macro whose first invocation ended with an error is running again
C22_Witness ==
    /\ nruns = 2
    /\ Len(stack) = 1
    /\ Len(printed) = 1
    /\ printed[1].macro = Top.name
    /\ printed[1].line > 0
    /\ Top.line > 1

\* the line passed to onecmd last
LastLine == log[Len(log)]

\* C23: when onecmd returns the stop signal for a line of a macro (the
\* line is quit and do_quit returns True), run returns it in the same step
\* and from then on every enclosing call of run returns it unchanged; no
\* line is formatted, passed to onecmd or to a directive, no error is
\* printed and the session state is left alone until cmdloop has stopped
C23_StopPropagates ==
    /\ [][/\ result # "stop" /\ result' = "stop" =>
                /\ RunExits
                /\ log' = Append(log, [macro |-> Top.name, line |-> Top.line,
                                       to |-> "onecmd", text |-> <<"quit">>])
          /\ result = "stop" =>
                /\ log' = log
                /\ printed' = printed
                /\ _shell' = _shell
                /\ nruns' = nruns
                /\ IF stack # <<>> THEN RunExits /\ result' = "stop"
                   ELSE macroPc' = "stopped"]_vars
    /\ [](macroPc = "stopped" =>
            /\ stack = <<>>
            /\ LastLine.text = <<"quit">>
            /\ LastLine.line < Len(_split(macros[LastLine.macro])))

\* the stop signal of a macro run by another macro has reached the outer
\* one, which has a line left
C23_Witness ==
    /\ result = "stop"
    /\ Len(stack) = 1
    /\ Top.name # LastLine.macro
    /\ Top.line < Len(_split(macros[Top.name]))

\* the lines of a definition that are commands, templates or directives
Logical(definition) ==
    { j \in 1..Len(definition) : definition[j].kind \notin {"comment", "blank"} }

\* the line of the definition that is its k-th logical line
RawLine(definition, k) ==
    definition[CHOOSE j \in Logical(definition) :
                    Cardinality({ h \in Logical(definition) : h <= j }) = k]

\* the line number the error raised at line l carries when it is raised
Carried(l) ==
    IF l.kind = "directive" /\ Len(l.text) > 1 /\ lower(l.text[1]) = "fail"
    THEN int(Tail(l.text))
    ELSE 0

\* an error is raised by the formatter or by a directive in this step
LineFails == RunExits /\ Len(printed') > Len(printed)

\* C24: an error raised by the formatter or by a directive at the k-th
\* logical line of a macro (blank lines and comments not counted) is
\* printed with line number k if it carried none when it was raised, and
\* with the number it carried otherwise
C24_LineNumber ==
    [][LineFails =>
        LET definition == macros[Top.name]
            failing == { k \in 1..Cardinality(Logical(definition)) :
                            /\ RawLine(definition, k).kind = Line.kind
                            /\ RawLine(definition, k).text = Line.text }
        IN  /\ failing # {}
            /\ Line.kind \in {"tpl", "format", "directive"}
            /\ Refused.macro = Top.name
            /\ \A k \in failing :
                    Refused.line = IF Carried(Line) = 0 THEN k
                                   ELSE Carried(Line)]_vars

\* one error was printed with the number of its line, after a comment and
\* a blank line that do not count, and one with the number it carried
C24_Witness ==
    /\ \E i \in 1..Len(printed) :
            printed[i] = MacroError("fails", 2, "failed")
    /\ \E i \in 1..Len(printed) :
            printed[i] = MacroError("fails7", 7, "failed")

\* the entries of the log that are lines of macro name, in order
LinesOf(name) == SelectSeq(log, LAMBDA e : e.macro = name)

\* the log of "user {1}", "send" run with the argument hello
ScenarioLog ==
    <<[macro |-> "greet", line |-> 1, to |-> "onecmd",
       text |-> <<"user", "hello">>],
      [macro |-> "greet", line |-> 2, to |-> "onecmd", text |-> <<"send">>]>>

\* C25: a run of a macro passes on the lines of the definition that are
\* neither blank nor comments, in the order of the definition and each
\* once: the lines of a macro in the log are numbered 1, 2, ... from the
\* start of each run; a line that starts with the directive prefix goes to
\* the directive and never to onecmd, every other line goes to onecmd as
\* the formatter renders it ("user {1}", "send" with the argument hello
\* passes "user hello" and then "send")
C25_LinesInOrder ==
    /\ \A name \in DOMAIN macros :
            LET lines == LinesOf(name)
            IN  \A i \in 1..Len(lines) :
                    /\ i = 1 => lines[i].line = 1
                    /\ i > 1 => lines[i].line \in {1, lines[i - 1].line + 1}
    /\ \A i \in 1..Len(log) :
            LET l == RawLine(macros[log[i].macro], log[i].line)
            IN  /\ log[i].line \in 1..Cardinality(Logical(macros[log[i].macro]))
                /\ (l.kind = "directive") = (log[i].to = "directive")
                /\ l.kind \in {"cmd", "call", "quit"} =>
                        log[i].text = <<l.text>>
                /\ l.kind = "tpl" =>
                        /\ Len(log[i].text) = Len(l.text)
                        /\ \A w \in 1..Len(l.text) :
                                l.text[w].kind = "lit" =>
                                    log[i].text[w] = l.text[w].text
    /\ nruns = 1 /\ macroPc = "prompt" /\ log # <<>> /\ log[1].macro = "greet"
            => log = ScenarioLog

\* the scenario has run, and then a macro with a directive
C25_Witness ==
    /\ Len(log) > 2
    /\ SubSeq(log, 1, 2) = ScenarioLog
    /\ \E i \in 1..Len(log) : log[i].to = "directive"

\* an error is printed in this step
ErrorPrinted == Len(printed') > Len(printed)

\* C26: a macro error (of the formatter, of a directive, for recursion or
\* for a full stack) does not stop the session: in the step that prints it
\* the failing call of run is off the stack, with every other call as it
\* was, so it runs none of its remaining lines; onecmd gets False, the "do
\* not stop" result; and cmdloop stops only for the stop signal of quit,
\* going back to the prompt after an error
C26_ErrorsDoNotStop ==
    [][/\ ErrorPrinted =>
            /\ Len(printed') = Len(printed) + 1
            /\ result' = "continue"
            /\ macroPc' # "stopped"
            /\ \/ /\ RunExits
                  /\ stack' = SubSeq(stack, 1, Len(stack) - 1)
                  /\ Refused.macro = Top.name
                  /\ Refused.line > 0
                  /\ \A i \in (Len(log) + 1)..Len(log') :
                        log'[i].to = "directive"
               \/ /\ Refused.error \in {"Recursive invocation",
                                        "Stack overflow"}
                  /\ stack' = stack
                  /\ Refused.line = 0
                  /\ \A i \in (Len(log) + 1)..Len(log') :
                        log'[i].text[1] = Refused.macro
       /\ result = "continue" /\ stack = <<>> => macroPc' = "prompt"
       /\ macroPc' = "stopped" /\ macroPc # "stopped" =>
            result = "stop" /\ LastLine.text = <<"quit">>
       /\ result' = "stop" /\ result # "stop" => ~ErrorPrinted]_vars

\* the shell is at its prompt again after two macros that failed, one in
\* the formatter and one in a directive
C26_Witness ==
    /\ macroPc = "prompt"
    /\ nruns = 2
    /\ Len(printed) = 2
    /\ printed[1].error = "Invalid format string"
    /\ printed[2].error = "Unknown directive"

\* the spellings of the keywords that differ only in case
Spellings == { {"set", "Set", "SET"}, {"fail", "Fail", "FAIL"} }

\* keywords a and b differ at most in case
SameButCase(a, b) == a = b \/ \E c \in Spellings : a \in c /\ b \in c

\* the keyword of the directive line a log entry is about
KeywordOf(e) == RawLine(macros[e.macro], e.line).text[1]

\* run is about to run a directive line
AtDirective ==
    /\ macroPc = "running"
    /\ stack # <<>>
    /\ result = "none"
    /\ Top.line <= Len(_split(macros[Top.name]))
    /\ Line.kind = "directive"

\* C28: a directive line with nothing after the prefix fails with the
\* empty-directive error and one whose keyword is not registered with the
\* unknown-directive error, and in both cases nothing is passed to a
\* directive or to onecmd; a keyword is looked up whatever its case, so
\* spellings that differ only in case reach the same directive
C28_DirectiveLookup ==
    /\ [][AtDirective =>
            IF Line.text = <<>>
            THEN /\ ErrorPrinted
                 /\ Refused.error = "Empty directive specification"
                 /\ log' = log
            ELSE IF \A name \in Registrations : ~SameButCase(name, Line.text[1])
            THEN /\ ErrorPrinted
                 /\ Refused.error = "Unknown directive"
                 /\ log' = log
            ELSE /\ Len(log') = Len(log) + 1
                 /\ log'[Len(log')].to = "directive"
                 /\ SameButCase(log'[Len(log')].text[1], Line.text[1])
                 /\ Tail(log'[Len(log')].text) = Tail(Line.text)
                 /\ ErrorPrinted => Refused.error = "failed"]_vars
    /\ [](\A i, j \in 1..Len(log) :
            /\ log[i].to = "directive"
            /\ log[j].to = "directive"
            /\ SameButCase(KeywordOf(log[i]), KeywordOf(log[j]))
            => log[i].text[1] = log[j].text[1])

\* the unknown-directive error was printed for one macro, and the lines
\* "@Set n v" and "@set thread mine" of another reached the same directive
C28_Witness ==
    /\ \E i \in 1..Len(printed) : printed[i].error = "Unknown directive"
    /\ \E i, j \in 1..Len(log) :
            /\ log[i].to = "directive"
            /\ log[j].to = "directive"
            /\ KeywordOf(log[i]) # KeywordOf(log[j])
            /\ log[i].text[1] = log[j].text[1]

\* the line passed to onecmd in this step, and the line of the macro it is
Passed == log'[Len(log')]

\* a line with fields is passed to onecmd in this step
FieldsExpanded ==
    /\ Len(log') = Len(log) + 1
    /\ Passed.to = "onecmd"
    /\ Line.kind = "tpl"

\* what thread, account and model are in the session
Live(key) ==
    IF key = "thread" THEN _shell.thread
    ELSE IF key = "account" THEN _shell.account
    ELSE _shell.model[_shell.account]

\* the first line of a run of the macro where whose last line is entry i
\* of the log
WhereStart(i) == log[i - 4]

\* C29: a name in a field is looked up among the names bound in the macro
\* first and among the built-in names after that, and thread, account and
\* model are what the session has when the line is expanded: after the
\* lines "thread X", "account A", "model M" of a macro, a line of the
\* same macro expands {thread} to X (to the empty text after a bare
\* "thread", which makes the detached thread current), {account} to A if
\* A is configured and {model} to M if M is valid, whatever they were when
\* the macro started
C29_LiveBuiltins ==
    /\ [][FieldsExpanded =>
            \A w \in 1..Len(Line.text) :
                \A key \in {"thread", "account", "model"} :
                    Line.text[w].kind = "field" /\ Line.text[w].name = <<key>>
                    => Passed.text[w] =
                            IF key \in DOMAIN Top.env THEN Top.env[key]
                            ELSE Live(key)]_vars
    /\ [](\A i \in 1..Len(log) :
            log[i].macro = "where" /\ log[i].line = 5 =>
                /\ log[i - 3].text = <<"thread", log[i].text[2]>>
                /\ log[i - 2].text[2] \in Accounts =>
                        log[i].text[3] = log[i - 2].text[2]
                /\ log[i - 2].text[2] \notin Accounts =>
                        log[i].text[3] = WhereStart(i).text[3]
                /\ log[i - 1].text[2] \in valid_models =>
                        log[i].text[4] = log[i - 1].text[2]
                /\ log[i].text[3] = WhereStart(i).text[3]
                        /\ log[i - 1].text[2] \notin valid_models =>
                        log[i].text[4] = WhereStart(i).text[4])
    /\ [](\A i \in 1..Len(log) :
            log[i].macro = "bind" /\ log[i].to = "onecmd" =>
                log[i].text[2] = CASE log[i].line = 1 -> "d"
                                   [] log[i].line = 3 -> "v"
                                   [] log[i].line = 5 -> "mine")

\* a run of where has switched thread, account and model and its last
\* line shows all three, none as the first line showed it; a second run
\* has gone back to the detached thread
C29_Witness ==
    /\ Len(log) = 10
    /\ log[1].text = <<"user", "", "default", "m1">>
    /\ log[5].text = <<"user", "t", "work", "m2">>
    /\ log[6].text = <<"user", "t", "work", "m2">>
    /\ log[10].text = <<"user", "", "work", "m2">>

(***************************************************************************)
(* SendSpec: the shell with do_send, which submits provider.complete to a  *)
(* worker, waits for it (_await_future_interruptible) and prints the       *)
(* response; the user may interrupt the wait or the stream.                *)
(***************************************************************************)
\* LLMResponse.cost_in_cents: <<>> is None
Costs == { <<>>, <<1>> }

\* a chunk of a streamed response, reduced to the delta of its one choice
Delta(role, content) == [role |-> role, content |-> content]

\* what do_send took from res before the iteration ended: nothing, the
\* chunk that names the role, and one or two fragments of content after
\* it.  A response that is not streamed yields its content at once.
Streams ==
    { <<>>,
      <<Delta("assistant", "")>>,
      <<Delta("assistant", "r")>>,
      <<Delta("assistant", ""), Delta("", "r"), Delta("", "s")>> }

\* how a send ends.  "cancelled": KeyboardInterrupt while waiting for the
\* future; "failed": the future raised CompletionError, NotImplementedError
\* or ValueError; "response": the iteration over res ended by itself;
\* "disconnected": KeyboardInterrupt during the iteration; "stream_error":
\* CompletionError during the iteration
Outcomes == {"cancelled", "failed", "response", "disconnected", "stream_error"}

\* __next__ with a message that holds the latest fragment only
__next___LatestOnly(message, delta) ==
    [role |-> IF delta.role # "" /\ delta.role # message.role
              THEN message.role \o delta.role
              ELSE message.role,
     content |-> IF delta.content # "" THEN delta.content
                 ELSE message.content]

\* StreamedOpenAIResponse.__next__ on a chunk with one choice: res.message
\* after the chunk
__next__(message, delta) ==
    [role |-> IF delta.role # "" /\ delta.role # message.role
              THEN message.role \o delta.role
              ELSE message.role,
     content |-> IF delta.content # "" THEN message.content \o delta.content
                 ELSE message.content]

\* res.message after the loop "for chunk in res" has taken chunks
RECURSIVE Consume(_, _)
Consume(message, chunks) ==
    IF chunks = <<>> THEN message
    ELSE Consume(__next__(message, Head(chunks)), Tail(chunks))

\* do_send with a send that keeps the cost flag as it was when cancelled
do_send_CancelForgets ==
    /\ CanRun \/ session = "sending"
    /\ \E outcome \in Outcomes, chunks \in Streams, cost_in_cents \in Costs :
        LET message == Consume([role |-> "", content |-> ""], chunks)
        IN  /\ IF outcome = "cancelled"
               THEN /\ UNCHANGED <<_session_cost_in_cents,
                                   _session_cost_incomplete>>
                    /\ _stream' = <<>>
                    /\ UNCHANGED <<threadObjs, threads, current, nameDicts,
                                   attLists, metaDicts>>
               ELSE IF outcome = "failed"
               THEN /\ UNCHANGED <<_session_cost_in_cents,
                                   _session_cost_incomplete>>
                    /\ _stream' = <<>>
                    /\ UNCHANGED <<threadObjs, threads, current, nameDicts,
                                   attLists, metaDicts>>
               ELSE /\ _stream' = chunks
                    /\ IF message.role # "" /\ message.content # ""
                       THEN _append_new_message(message.content,
                                                message.role)
                       ELSE UNCHANGED <<threadObjs, threads, current,
                                        nameDicts, attLists, metaDicts>>
                    /\ IF cost_in_cents # <<>>
                       THEN /\ _session_cost_in_cents' =
                                   _session_cost_in_cents + cost_in_cents[1]
                            /\ UNCHANGED _session_cost_incomplete
                       ELSE /\ _session_cost_incomplete' = TRUE
                            /\ UNCHANGED _session_cost_in_cents
            /\ IF session = "sending"
               THEN cmdArg' = outcome /\ UNCHANGED <<cmd, ncmds>>
               ELSE RanOn("send", outcome)
    /\ session' = "running"
    /\ UNCHANGED <<file, last_path>>
    /\ UNCHANGED <<storeVars, serialVars, rangeVars, macroVars, formatVars,
                   callVars>>

\* Gptcmd.do_send, typed at the prompt or called by do_retry (session is
\* "sending" then).  After "response", "disconnected" and "stream_error"
\* the finally clause runs with what res.message holds by then.
do_send ==
    /\ CanRun \/ session = "sending"
    /\ \E outcome \in Outcomes, chunks \in Streams, cost_in_cents \in Costs :
        LET message == Consume([role |-> "", content |-> ""], chunks)
        IN  /\ IF outcome = "cancelled"
               THEN /\ _session_cost_incomplete' = TRUE
                    /\ UNCHANGED _session_cost_in_cents
                    /\ _stream' = <<>>
                    /\ UNCHANGED <<threadObjs, threads, current, nameDicts,
                                   attLists, metaDicts>>
               ELSE IF outcome = "failed"
               THEN /\ UNCHANGED <<_session_cost_in_cents,
                                   _session_cost_incomplete>>
                    /\ _stream' = <<>>
                    /\ UNCHANGED <<threadObjs, threads, current, nameDicts,
                                   attLists, metaDicts>>
               ELSE /\ _stream' = chunks
                    /\ IF message.role # "" /\ message.content # ""
                       THEN _append_new_message(message.content,
                                                message.role)
                       ELSE UNCHANGED <<threadObjs, threads, current,
                                        nameDicts, attLists, metaDicts>>
                    /\ IF cost_in_cents # <<>>
                       THEN /\ _session_cost_in_cents' =
                                   _session_cost_in_cents + cost_in_cents[1]
                            /\ UNCHANGED _session_cost_incomplete
                       ELSE /\ _session_cost_incomplete' = TRUE
                            /\ UNCHANGED _session_cost_in_cents
            /\ IF session = "sending"
               THEN cmdArg' = outcome /\ UNCHANGED <<cmd, ncmds>>
               ELSE RanOn("send", outcome)
    /\ session' = "running"
    /\ UNCHANGED <<file, last_path>>
    /\ UNCHANGED <<storeVars, serialVars, rangeVars, macroVars, formatVars,
                   callVars>>

\* the shell with send and the commands that change the messages, the
\* names and the threads
NextSend ==
    \/ do_send
    \/ do_user
    \/ do_thread
    \/ do_name
    \/ do_pop
    \/ do_clear

SendSpec == InitShell /\ [][NextSend]_vars

\* a send was cancelled in this step
Cancelled == cmd' = "send" /\ cmdArg' = "cancelled" /\ ncmds' = ncmds + 1

\* C30: a send cancelled while the shell waits for the response leaves
\* the current thread (its messages with their attachments and metadata,
\* its names, its dirty flag), the named threads and which thread is
\* current as they were when the call was submitted; of the session only
\* the cost-incomplete flag changes, to true, and no later command sets a
\* flag that is true back to false
C30_CancelledSend ==
    /\ [][Cancelled =>
            /\ threadObjs' = threadObjs
            /\ threads' = threads
            /\ current' = current
            /\ nameDicts' = nameDicts
            /\ attLists' = attLists
            /\ metaDicts' = metaDicts
            /\ UNCHANGED saveVars
            /\ _session_cost_in_cents' = _session_cost_in_cents
            /\ _session_cost_incomplete']_vars
    /\ [][_session_cost_incomplete => _session_cost_incomplete']_vars

\* a send on a named thread that holds a message and a name has just
\* been cancelled
C30_Witness ==
    /\ _session_cost_incomplete
    /\ _session_cost_in_cents = 0
    /\ current # 1
    /\ CurrentThread.messages # <<>>
    /\ nameDicts[CurrentThread.names] # EmptyDict
    /\ cmd = "send"
    /\ cmdArg = "cancelled"

\* a send ended in this step the way outcome says
Sent(outcome) == cmd' = "send" /\ cmdArg' = outcome /\ ncmds' = ncmds + 1

\* the fragments of content the send of this step received, in one piece
Accumulated == Text([k \in 1..Len(_stream') |-> _stream'[k].content])

\* C31: a send that fails before a response is received leaves the thread
\* as it was; a send whose stream is interrupted or fails after fragments
\* of content were received appends one message that holds the fragments
\* received, in order, and changes nothing else of the thread
C31_FailedOrInterruptedSend ==
    /\ [][Sent("failed") =>
            UNCHANGED <<threadObjs, threads, current, nameDicts, attLists,
                        metaDicts>>]_vars
    /\ [][((Sent("disconnected") \/ Sent("stream_error"))
                /\ Accumulated # "") =>
            LET msgs == CurrentThread.messages
                after == threadObjs'[current].messages
            IN  /\ Len(after) = Len(msgs) + 1
                /\ SubSeq(after, 1, Len(msgs)) = msgs
                /\ after[Len(after)].content = Accumulated
                /\ after[Len(after)].role = "assistant"
                /\ threadObjs'[current].name = CurrentThread.name
                /\ threadObjs'[current].names = CurrentThread.names
                /\ \A t \in 1..Len(threadObjs) :
                        t # current => threadObjs'[t] = threadObjs[t]
                /\ Len(threadObjs') = Len(threadObjs)
                /\ UNCHANGED <<threads, current, nameDicts>>
                /\ SubSeq(attLists', 1, Len(attLists)) = attLists
                /\ SubSeq(metaDicts', 1, Len(metaDicts)) = metaDicts]_vars

\* a stream was interrupted on a thread with a message after its second
\* fragment, and the message appended holds both
C31_Witness ==
    /\ cmd = "send"
    /\ cmdArg = "disconnected"
    /\ Len(_stream) = 3
    /\ Len(CurrentThread.messages) >= 2
    /\ CurrentThread.messages[Len(CurrentThread.messages)].content = "rs"

\* a send failed on a thread that holds a message
C31_WitnessFailed ==
    /\ cmd = "send"
    /\ cmdArg = "failed"
    /\ CurrentThread.messages # <<>>

(***************************************************************************)
(* RetrySpec: the shell with do_retry and do_load and the commands that    *)
(* create, switch, delete and fill threads and that protect, move and      *)
(* remove messages.                                                        *)
(***************************************************************************)
\* the part of a thread name before its number, for the names of the model
ThreadBases == {"t"}

\* re.match(r"(.*?)(\d+$)", name): the pairs of basename and number that
\* name is made of; empty when name does not end with a number
is_numbered_thread(name) ==
    { bn \in ThreadBases \X (0..2 * MaxCmds) : name = bn[1] \o ToString(bn[2]) }

\* the name do_retry gives the thread it creates
newname(name, keys) ==
    LET m == is_numbered_thread(name)
        plain == name \in Digits \/ m = {}
        basename == IF plain THEN name ELSE (CHOOSE bn \in m : TRUE)[1]
        start == IF plain THEN 2 ELSE (CHOOSE bn \in m : TRUE)[2]
        free == { n \in start..(start + Cardinality(keys)) :
                    basename \o ToString(n) \notin keys }
        num == CHOOSE n \in free : \A other \in free : n <= other
    IN  basename \o ToString(num)

\* the loop of do_retry from index i down that removes any assistant
\* message it finds
RECURSIVE for_i_in_range_AnySticky(_, _, _)
for_i_in_range_AnySticky(msgs, d, i) ==
    IF i < 0 THEN Outcome(msgs, d, <<>>, NoError)
    ELSE IF msgs[i + 1].role = "assistant"
    THEN Outcome(RemoveAt(msgs, i + 1), TRUE, <<msgs[i + 1]>>, NoError)
    ELSE for_i_in_range_AnySticky(msgs, d, i - 1)

\* the loop of do_retry from index i down: pop the first assistant message
\* that pop does not refuse, then stop
RECURSIVE for_i_in_range(_, _, _)
for_i_in_range(msgs, d, i) ==
    IF i < 0 THEN Outcome(msgs, d, <<>>, NoError)
    ELSE IF msgs[i + 1].role = "assistant"
    THEN LET p == pop(msgs, d, Some(i))
         IN  IF p.err = NoError THEN p
             ELSE for_i_in_range(msgs, d, i - 1)
    ELSE for_i_in_range(msgs, d, i - 1)

\* Gptcmd.do_retry up to its call of do_send, which is the next step;
\* should_create is what create_new_thread_on_retry and, for "ask", the
\* answer to the confirmation give
do_retry ==
    /\ CanRun
    /\ \E should_create \in BOOLEAN :
        LET msgs == CurrentThread.messages
            created == current # 1 /\ should_create
            name == newname(CurrentThread.name, DOMAIN threads)
            new == Len(threadObjs) + 1
            objs == IF created
                    THEN Append(threadObjs,
                                ThreadObject(name, msgs, CurrentThread.names))
                    ELSE threadObjs
            t == IF created THEN new ELSE current
            out == for_i_in_range(objs[t].messages, objs[t].dirty,
                                  Len(objs[t].messages) - 1)
        IN  IF \A k \in 1..Len(msgs) : msgs[k].role = "assistant"
            THEN /\ UNCHANGED <<threadObjs, threads, current, session>>
                 /\ RanOn("retry", "")
            ELSE /\ threadObjs' = [objs EXCEPT ![t].messages = out.messages,
                                               ![t].dirty = out.dirty]
                 /\ threads' = IF created THEN DictSet(threads, name, new)
                               ELSE threads
                 /\ current' = t
                 /\ session' = "sending"
                 /\ RanOn("retry", IF created THEN name ELSE "")
    /\ UNCHANGED <<nameDicts, attLists, metaDicts, file, last_path>>
    /\ UNCHANGED nonShellVars

\* the files load is given: the threads of each, in the order of the file,
\* with the roles of their messages
Files ==
    { << <<"t1", <<"user">>>> >>,
      << <<"t1", <<>>>>, <<"t2", <<"user">>>> >> }

\* the heaps and the thread map after MessageThread.from_dict(v, name=k)
\* for each entry of a file and _threads.update with the result; every
\* message read has a list of attachments and a metadata dict of its own
RECURSIVE from_dicts(_, _)
from_dicts(entries, h) ==
    IF entries = <<>> THEN h
    ELSE LET name == Head(entries)[1]
             roles == Head(entries)[2]
             msgs == [k \in 1..Len(roles) |->
                        [Message("a", roles[k], None, FALSE)
                            EXCEPT !.attachments = Len(h.atts) + k,
                                   !.metadata = Len(h.metas) + k]]
         IN  from_dicts(Tail(entries),
                [objs |-> Append(h.objs,
                                 ThreadObject(name, msgs, Len(h.names) + 1)),
                 map |-> DictSet(h.map, name, Len(h.objs) + 1),
                 atts |-> h.atts \o [k \in 1..Len(roles) |-> <<>>],
                 metas |-> h.metas \o [k \in 1..Len(roles) |-> EmptyDict],
                 names |-> Append(h.names, EmptyDict)])

\* do_load that leaves the current thread as it is
do_load_NoResync ==
    /\ CanRun
    /\ \E f \in Files, readable \in BOOLEAN :
        LET h == from_dicts(f, [objs |-> threadObjs, map |-> threads,
                                atts |-> attLists, metas |-> metaDicts,
                                names |-> nameDicts])
        IN  IF ~readable
            THEN UNCHANGED <<threadObjs, threads, current, nameDicts,
                             attLists, metaDicts, last_path>>
            ELSE /\ threadObjs' = h.objs
                 /\ threads' = h.map
                 /\ attLists' = h.atts
                 /\ metaDicts' = h.metas
                 /\ nameDicts' = h.names
                 /\ UNCHANGED current
                 /\ last_path' = "f"
    /\ Ran("load")
    /\ UNCHANGED <<file, session>>
    /\ UNCHANGED nonShellVars

\* Gptcmd.do_load of a path; readable tells whether the file could be read
\* and is a file of threads of this version
do_load ==
    /\ CanRun
    /\ \E f \in Files, readable \in BOOLEAN :
        LET h == from_dicts(f, [objs |-> threadObjs, map |-> threads,
                                atts |-> attLists, metas |-> metaDicts,
                                names |-> nameDicts])
        IN  IF ~readable
            THEN UNCHANGED <<threadObjs, threads, current, nameDicts,
                             attLists, metaDicts, last_path>>
            ELSE /\ threadObjs' = h.objs
                 /\ threads' = h.map
                 /\ attLists' = h.atts
                 /\ metaDicts' = h.metas
                 /\ nameDicts' = h.names
                 /\ current' = IF current = 1 THEN current
                               ELSE IF CurrentThread.name \in DOMAIN h.map
                               THEN h.map[CurrentThread.name]
                               ELSE 1
                 /\ last_path' = "f"
    /\ Ran("load")
    /\ UNCHANGED <<file, session>>
    /\ UNCHANGED nonShellVars

\* the commands that protect, move and remove messages, with retry
NextRetry ==
    \/ do_user
    \/ do_sticky
    \/ do_unsticky
    \/ do_pop
    \/ do_clear
    \/ do_move
    \/ do_rename
    \/ do_retry
    \/ do_send
    \/ do_thread

RetrySpec == InitShell /\ [][NextRetry]_vars

\* the commands that create, switch, replace and delete threads
NextThreads ==
    \/ do_user
    \/ do_thread
    \/ do_delete
    \/ do_load
    \/ do_copy
    \/ do_retry
    \/ do_send

ThreadsSpec == InitShell /\ [][NextThreads]_vars

\* the retry command ran in this step, up to its call of do_send
Retried == cmd' = "retry" /\ ncmds' = ncmds + 1

\* the 1-based positions of the assistant messages of msgs that are not
\* sticky
Removable(msgs) ==
    { p \in 1..Len(msgs) : msgs[p].role = "assistant" /\ ~msgs[p].sticky }

InMacro == stack # <<>>

\* C39: while a line of a macro is being executed the depth counter is
\* the number of names in the executing set, the macros of the calls in
\* progress are pairwise different, and the depth is between 1 and
\* _STACK_DEPTH_LIMIT; outside any macro the depth is 0 and the set empty
C39_DepthCountsExecuting ==
    /\ InMacro =>
            /\ _depth = Cardinality(_active_macros)
            /\ Cardinality({ stack[i].name : i \in 1..Len(stack) })
                    = Len(stack)
            /\ _depth \in 1.._STACK_DEPTH_LIMIT
    /\ ~InMacro => _depth = 0 /\ Cardinality(_active_macros) = 0

\* the tenth macro of a chain is at one of its lines
C39_Witness ==
    /\ Len(stack) = _STACK_DEPTH_LIMIT
    /\ _depth = _STACK_DEPTH_LIMIT
    /\ result = "none"
    /\ log # <<>>

\* C38: the current thread is the detached thread or the thread that the
\* map of named threads holds under the current thread's name, and every
\* thread of the map is stored under its own name; so the current thread
\* is never a thread that was deleted or that a load has replaced
C38_CurrentIsDetachedOrNamed ==
    /\ \/ current = 1
       \/ /\ CurrentThread.name \in DOMAIN threads
          /\ threads[CurrentThread.name] = current
    /\ \A k \in DOMAIN threads : threadObjs[threads[k]].name = k

\* a load has replaced the thread t1 while it was the current thread, and
\* the current thread is the one that was loaded
C38_Witness ==
    /\ cmd = "load"
    /\ current # 1
    /\ CurrentThread.name = "t1"
    /\ \E t \in 2..Len(threadObjs) :
            t # current /\ threadObjs[t].name = "t1"

(***************************************************************************)
(* Claims about the commands that move and remove messages                 *)
(***************************************************************************)
\* the move command ran with the argument toks
Moved(toks) ==
    cmd' = "move" /\ cmdArg' = Typed(toks) /\ ncmds' = ncmds + 1

\* the 1-based position that user position p names in a thread of n
\* messages: negative positions count from the end, -1 is the last
UserPosition(p, n) == IF p > 0 THEN p ELSE n + p + 1

\* C35: after move <i> <j> the message that was at user position i is at
\* user position j of the current thread and the other messages keep
\* their order; when the destination is out of bounds or the source does
\* not exist the thread is unchanged
C35_MoveToPosition ==
    [][\A toks \in Moves :
        (/\ Moved(toks)
         /\ Len(toks) = 2
         /\ toks[1].kind = "int" /\ toks[1].int # 0
         /\ toks[2].kind = "int" /\ toks[2].int # 0)
        => LET msgs == CurrentThread.messages
               after == threadObjs'[current].messages
               n == Len(msgs)
               i == UserPosition(toks[1].int, n)
               j == UserPosition(toks[2].int, n)
           IN  IF i \in 1..n /\ j \in 1..n
               THEN \/ msgs[i].sticky
                    \/ /\ Len(after) = n
                       /\ after[j] = msgs[i]
                       /\ RemoveAt(after, j) = RemoveAt(msgs, i)
               ELSE after = msgs]_vars

\* one of the commands pop, clear, move, rename and retry ran in this
\* step, or the send that retry calls
RemovedOrRenamed ==
    /\ cmd' \in {"pop", "clear", "move", "rename", "retry"}
    /\ ncmds' = ncmds + 1 \/ session = "sending"

\* C40: pop, clear, move, rename and retry leave every message whose
\* sticky flag is true in its thread, with its name: the sticky messages
\* of each thread, in order, are after the command what they were before
C40_StickyKept ==
    [][RemovedOrRenamed =>
        \A t \in 1..Len(threadObjs) :
            stickys(threadObjs'[t].messages) = stickys(threadObjs[t].messages)
      ]_vars

\* clear has removed a message from a thread and kept the sticky one
C40_Witness ==
    /\ cmd = "clear"
    /\ CurrentThread.dirty
    /\ Len(CurrentThread.messages) = 1
    /\ CurrentThread.messages[1].sticky
    /\ Len(attLists) >= 2

(***************************************************************************)
(* ParamSpec: an LLMProvider whose API parameters are set, unset and       *)
(* updated (llm/__init__.py).                                              *)
(***************************************************************************)
\* the names of the parameters the calls use
ParamKeys == {"temperature", "max_tokens", "top_p", "invalid_param"}

\* the names validate_api_params accepts
valid_opts == {"temperature", "max_tokens", "top_p"}

\* parameter values range over 1 .. MaxValue
MaxValue == 2

\* the values the calls use
ParamValues == 1..MaxValue

\* the dicts handed to update_api_params
Updates ==
    { <<>>,
      [k \in {"temperature", "max_tokens"} |-> 2],
      [k \in {"temperature", "invalid_param"} |-> 2] }

\* validate_api_params(params): the dict it returns, or
\* InvalidAPIParameterError for a name that is not accepted
validate_api_params(params) ==
    IF \E opt \in DOMAIN params : opt \notin valid_opts
    THEN [err |-> "InvalidAPIParameterError", value |-> <<>>]
    ELSE [err |-> "", value |-> params]

\* dict.update: d with the entries of e
update(d, e) ==
    [k \in DOMAIN d \cup DOMAIN e |-> IF k \in DOMAIN e THEN e[k] ELSE d[k]]

\* LLMProvider.__init__
InitParam ==
    /\ StoreIdle
    /\ SerialIdle
    /\ ShellIdle
    /\ RangeIdle
    /\ MacroIdle
    /\ FormatIdle
    /\ CostIdle
    /\ renderArgs = <<>>
    /\ renderOut = <<>>
    /\ _future_executor = <<>>
    /\ _api_params = <<>>
    /\ apiCall = <<>>

\* the variables ParamSpec leaves alone
nonParamVars ==
    <<storeVars, serialVars, shellVars, rangeVars, macroVars, formatVars,
      costVars, renderVars, workerVars>>

\* set_api_param that stores the new dict before it validates it
set_api_param_StoresFirst ==
    /\ \E key \in ParamKeys, value \in ParamValues :
        LET new_params == DictSet(_api_params, key, value)
            validated_params == validate_api_params(new_params)
        IN  /\ _api_params' = new_params
            /\ apiCall' = [op |-> "set_api_param", key |-> key,
                           params |-> DictSet(<<>>, key, value),
                           err |-> validated_params.err]
    /\ UNCHANGED nonParamVars

\* LLMProvider.set_api_param
set_api_param ==
    /\ \E key \in ParamKeys, value \in ParamValues :
        LET new_params == DictSet(_api_params, key, value)
            validated_params == validate_api_params(new_params)
        IN  /\ _api_params' = IF validated_params.err # "" THEN _api_params
                              ELSE validated_params.value
            /\ apiCall' = [op |-> "set_api_param", key |-> key,
                           params |-> DictSet(<<>>, key, value),
                           err |-> validated_params.err]
    /\ UNCHANGED nonParamVars

\* LLMProvider.unset_api_param; key None unsets every parameter
unset_api_param ==
    /\ \E key \in ParamKeys \cup {None} :
        /\ _api_params' = IF key = None THEN <<>>
                          ELSE IF key \in DOMAIN _api_params
                          THEN DictPop(_api_params, key)
                          ELSE _api_params
        /\ apiCall' = [op |-> "unset_api_param", key |-> key,
                       params |-> <<>>,
                       err |-> IF key # None /\ key \notin DOMAIN _api_params
                               THEN "InvalidAPIParameterError" ELSE ""]
    /\ UNCHANGED nonParamVars

\* LLMProvider.update_api_params
update_api_params ==
    /\ \E params \in Updates :
        LET new_params == update(_api_params, params)
            validated_params == validate_api_params(new_params)
        IN  /\ _api_params' = IF validated_params.err # "" THEN _api_params
                              ELSE validated_params.value
            /\ apiCall' = [op |-> "update_api_params", key |-> None,
                           params |-> params,
                           err |-> validated_params.err]
    /\ UNCHANGED nonParamVars

NextParam ==
    \/ set_api_param
    \/ unset_api_param
    \/ update_api_params

ParamSpec == InitParam /\ [][NextParam]_vars

\* C33: a call of set_api_param or update_api_params that raises
\* InvalidAPIParameterError leaves the parameter map as it was, and one
\* that does not raise leaves the old map with the entries of the call put
\* over it, every name accepted; the call raises exactly when the merge
\* has a name that is not accepted.  unset_api_param of a name that is not
\* set raises and leaves the map as it was.
C33_AllOrNothing ==
    [][/\ apiCall'.op \in {"set_api_param", "update_api_params"} =>
            LET merged == [k \in DOMAIN _api_params \cup DOMAIN apiCall'.params
                            |-> IF k \in DOMAIN apiCall'.params
                                THEN apiCall'.params[k]
                                ELSE _api_params[k]]
                accepted == DOMAIN merged \subseteq valid_opts
            IN  /\ (apiCall'.err = "InvalidAPIParameterError") <=> ~accepted
                /\ (apiCall'.err = "") <=> accepted
                /\ ~accepted => _api_params' = _api_params
                /\ accepted => _api_params' = merged
       /\ (/\ apiCall'.op = "unset_api_param"
           /\ apiCall'.key # None
           /\ apiCall'.key \notin DOMAIN _api_params) =>
            /\ apiCall'.err = "InvalidAPIParameterError"
            /\ _api_params' = _api_params]_vars

\* an update with a name that is not accepted was refused while a
\* parameter was set, and the parameter is still what it was
C33_Witness ==
    /\ apiCall # <<>>
    /\ apiCall.op = "update_api_params"
    /\ apiCall.err = "InvalidAPIParameterError"
    /\ "invalid_param" \in DOMAIN apiCall.params
    /\ DOMAIN _api_params = {"temperature"}
    /\ _api_params["temperature"] = 1

(***************************************************************************)
(* RenderSpec: MessageThread.render is called once on a thread.            *)
(***************************************************************************)
\* longest message list of a thread of RenderSpec
MaxRender == 2

\* most attachments on one message of RenderSpec
MaxMarks == 2

\* str * n
RECURSIVE Times(_, _)
Times(str, n) == IF n <= 0 THEN "" ELSE str \o Times(str, n - 1)

\* display_indicators with the marker of the attachments first
display_indicators_AttachmentsFirst(msg) ==
    Times("@", Len(msg.attachments)) \o Times("*", IF msg.sticky THEN 1 ELSE 0)

\* Message.display_indicators
display_indicators(msg) ==
    Times("*", IF msg.sticky THEN 1 ELSE 0) \o Times("@", Len(msg.attachments))

\* "\n".join(lines)
RECURSIVE join(_)
join(lines) ==
    IF lines = <<>> THEN ""
    ELSE IF Len(lines) = 1 THEN lines[1]
    ELSE lines[1] \o "\n" \o join(Tail(lines))

\* the generator of MessageThread.render: one line for each message of
\* self._messages[start_index:end_index]
lines(msgs, start_index, end_index, indicators) ==
    LET slice == Pick(msgs, SliceRange(msgs, start_index, end_index))
    IN  [k \in 1..Len(slice) |->
            (IF indicators THEN display_indicators(slice[k]) ELSE "")
            \o (IF slice[k].name # None THEN slice[k].name
                ELSE slice[k].role)
            \o ": "
            \o slice[k].content]

\* MessageThread.render
render(msgs, start_index, end_index, indicators) ==
    join(lines(msgs, start_index, end_index, indicators))

\* the messages of the threads rendered: of a user with and without a
\* name and of the assistant, sticky or not, with up to MaxMarks
\* attachments; the content tells the role
RenderMessages ==
    { [Message(IF rn[1] = "user" THEN "a" ELSE "b", rn[1], rn[2], pinned)
            EXCEPT !.attachments = [k \in 1..n |-> "img"]] :
        rn \in { <<"user", None>>, <<"user", "B">>, <<"assistant", None>> },
        pinned \in BOOLEAN, n \in 0..MaxMarks }

InitRender ==
    /\ StoreIdle
    /\ SerialIdle
    /\ ShellIdle
    /\ RangeIdle
    /\ MacroIdle
    /\ FormatIdle
    /\ CostIdle
    /\ _api_params = <<>>
    /\ apiCall = <<>>
    /\ _future_executor = <<>>
    /\ renderArgs \in
        { <<[messages |-> m, start_index |-> i, end_index |-> j,
             display_indicators |-> d]>> :
            m \in SeqsUpTo(RenderMessages, MaxRender),
            i \in {NoneInt, Some(1)}, j \in {NoneInt, Some(-1)},
            d \in BOOLEAN }
    /\ renderOut = <<>>

\* the call returns; the thread is only read
Render ==
    /\ renderOut = <<>>
    /\ renderOut' = <<[lines |-> lines(renderArgs[1].messages,
                                       renderArgs[1].start_index,
                                       renderArgs[1].end_index,
                                       renderArgs[1].display_indicators),
                       text |-> render(renderArgs[1].messages,
                                       renderArgs[1].start_index,
                                       renderArgs[1].end_index,
                                       renderArgs[1].display_indicators)]>>
    /\ UNCHANGED renderArgs
    /\ UNCHANGED <<storeVars, serialVars, shellVars, rangeVars, macroVars,
                   formatVars, costVars, paramVars, workerVars>>

NextRender == Render

RenderSpec == InitRender /\ [][NextRender]_vars

\* the 1-based positions of the messages that the arguments select
Slice ==
    SliceRange(renderArgs[1].messages, renderArgs[1].start_index,
               renderArgs[1].end_index)

\* the k-th smallest element of the set of positions P
RECURSIVE Nth(_, _)
Nth(P, k) ==
    LET least == CHOOSE p \in P : \A q \in P : p <= q
    IN  IF k = 1 THEN least ELSE Nth(P \ {least}, k - 1)

\* the markers the claim gives a message: one for sticky, then one for
\* each attachment
Markers(msg) ==
    (IF msg.sticky THEN "*" ELSE "")
    \o Text([k \in 1..Len(msg.attachments) |-> "@"])

\* C34: render gives one entry for each message of the slice selected, in
\* the order of the thread; an entry is the markers of the message (none
\* when display_indicators is false), then its name if it has one and its
\* role otherwise, then its content; the text returned is the entries
\* joined by newlines
C34_RenderEntries ==
    renderOut # <<>> =>
        LET msgs == renderArgs[1].messages
            out == renderOut[1].lines
        IN  /\ Len(out) = Cardinality(Slice)
            /\ \A k \in 1..Len(out) :
                LET msg == msgs[Nth(Slice, k)]
                IN  out[k] =
                        (IF renderArgs[1].display_indicators
                         THEN Markers(msg) ELSE "")
                        \o (IF msg.name = None THEN msg.role ELSE msg.name)
                        \o ": " \o msg.content
            /\ renderOut[1].text =
                Text([k \in 1..(2 * Len(out) - 1) |->
                        IF k % 2 = 1 THEN out[(k + 1) \div 2] ELSE "\n"])

\* the last of two messages was left out; the one rendered is sticky, has
\* a name and two attachments
C34_Witness ==
    /\ renderOut # <<>>
    /\ Len(renderArgs[1].messages) = 2
    /\ renderArgs[1].end_index = Some(-1)
    /\ renderArgs[1].display_indicators
    /\ renderOut[1].text = "*@@B: a"

(***************************************************************************)
(* WorkerSpec: do_send as the two call chains it is.  The shell has one    *)
(* executor with one worker (ThreadPoolExecutor(max_workers=1)); do_send   *)
(* submits provider.complete(self._current_thread) to it and waits in      *)
(* _await_future_interruptible.  complete builds the request from the      *)
(* thread, one message at a time, before it calls the backend.  Nothing    *)
(* in the shell or in MessageThread takes a lock.                          *)
(***************************************************************************)
\* a work item of the executor: the thread object handed to complete, how
\* many of its messages complete has converted, the request built so far,
\* what the backend answered and whether do_send still waits for it
WorkItem(t) ==
    [thread |-> t, read |-> 0, request |-> <<>>, state |-> "pending",
     result |-> "", awaited |-> TRUE]

\* what the future of a finished call holds: a response, or one of the
\* exceptions do_send catches
Results == {"response", "failed"}

\* the place of the item the worker is on or takes next: 0 when every
\* item has finished
RECURSIVE NextItem(_, _)
NextItem(items, k) ==
    IF k > Len(items) THEN 0
    ELSE IF items[k].state # "finished" THEN k
    ELSE NextItem(items, k + 1)

\* the place of the item do_send waits for: 0 when it waits for none
RECURSIVE Awaited(_, _)
Awaited(items, k) ==
    IF k > Len(items) THEN 0
    ELSE IF items[k].awaited THEN k
    ELSE Awaited(items, k + 1)

\* do_send up to the wait: print "...", submit the call on the current
\* thread object and block
submit ==
    /\ CanRun
    /\ _future_executor' = Append(_future_executor, WorkItem(current))
    /\ session' = "waiting"
    /\ Ran("send")
    /\ UNCHANGED <<threadObjs, threads, current, nameDicts, attLists,
                   metaDicts, file, last_path>>
    /\ UNCHANGED <<storeVars, serialVars, rangeVars, macroVars, formatVars,
                   costVars, paramVars, renderVars>>

\* the steps of the worker leave the shell's own variables alone
WorkerStep ==
    /\ UNCHANGED shellVars
    /\ UNCHANGED <<storeVars, serialVars, rangeVars, macroVars, formatVars,
                   costVars, paramVars, renderVars>>

\* the worker takes the next item: a cancelled future is dropped, any
\* other starts to run
_worker ==
    /\ NextItem(_future_executor, 1) # 0
    /\ LET k == NextItem(_future_executor, 1)
       IN  /\ _future_executor[k].state \in {"pending", "cancelled"}
           /\ _future_executor' =
                IF _future_executor[k].state = "cancelled"
                THEN RemoveAt(_future_executor, k)
                ELSE [_future_executor EXCEPT ![k].state = "running"]
    /\ WorkerStep

\* OpenAI.complete, one turn of "for m in messages": Sequence.__iter__
\* takes messages[i] until IndexError, whatever the thread holds by then;
\* after the last message the request goes to the backend
complete ==
    /\ NextItem(_future_executor, 1) # 0
    /\ LET k == NextItem(_future_executor, 1)
           item == _future_executor[k]
           msgs == threadObjs[item.thread].messages
       IN  /\ item.state = "running"
           /\ _future_executor' =
                IF item.read < Len(msgs)
                THEN [_future_executor EXCEPT
                        ![k].read = item.read + 1,
                        ![k].request = Append(item.request,
                                              msgs[item.read + 1])]
                ELSE [_future_executor EXCEPT ![k].state = "calling"]
    /\ WorkerStep

\* the backend answers or the call raises: the future is done.  A future
\* nobody waits for is forgotten with its result.
create ==
    /\ NextItem(_future_executor, 1) # 0
    /\ \E res \in Results :
        LET k == NextItem(_future_executor, 1)
            item == _future_executor[k]
        IN  /\ item.state = "calling"
            /\ _future_executor' =
                 IF item.awaited
                 THEN [_future_executor EXCEPT ![k].state = "finished",
                                               ![k].result = res]
                 ELSE RemoveAt(_future_executor, k)
    /\ WorkerStep

\* _await_future_interruptible returns or raises what the future holds,
\* and do_send goes on: a failed call is printed, a response is printed
\* and appended to the current thread, and its cost is added
_await_future_interruptible ==
    /\ session = "waiting"
    /\ Awaited(_future_executor, 1) # 0
    /\ \E cost_in_cents \in Costs :
        LET k == Awaited(_future_executor, 1)
            item == _future_executor[k]
            chunks == <<Delta("assistant", "r")>>
            message == Consume([role |-> "", content |-> ""], chunks)
        IN  /\ item.state = "finished"
            /\ _future_executor' = RemoveAt(_future_executor, k)
            /\ cmdArg' = item.result
            /\ IF item.result = "failed"
               THEN /\ UNCHANGED <<_session_cost_in_cents,
                                   _session_cost_incomplete>>
                    /\ _stream' = <<>>
                    /\ UNCHANGED <<threadObjs, threads, current, nameDicts,
                                   attLists, metaDicts>>
               ELSE /\ _stream' = chunks
                    /\ _append_new_message(message.content, message.role)
                    /\ IF cost_in_cents # <<>>
                       THEN /\ _session_cost_in_cents' =
                                   _session_cost_in_cents + cost_in_cents[1]
                            /\ UNCHANGED _session_cost_incomplete
                       ELSE /\ _session_cost_incomplete' = TRUE
                            /\ UNCHANGED _session_cost_in_cents
    /\ session' = "running"
    /\ UNCHANGED <<cmd, ncmds, file, last_path>>
    /\ UNCHANGED <<storeVars, serialVars, rangeVars, macroVars, formatVars,
                   paramVars, renderVars>>

\* Ctrl+c while do_send waits: future.cancel() cancels a call that has
\* not started and does nothing to one that runs or has finished; the
\* shell is back at the prompt
KeyboardInterrupt ==
    /\ session = "waiting"
    /\ Awaited(_future_executor, 1) # 0
    /\ LET k == Awaited(_future_executor, 1)
           item == _future_executor[k]
       IN  _future_executor' =
             IF item.state = "pending"
             THEN [_future_executor EXCEPT ![k].state = "cancelled",
                                           ![k].awaited = FALSE]
             ELSE IF item.state = "finished"
             THEN RemoveAt(_future_executor, k)
             ELSE [_future_executor EXCEPT ![k].awaited = FALSE]
    /\ cmdArg' = "cancelled"
    /\ _session_cost_incomplete' = TRUE
    /\ session' = "running"
    /\ UNCHANGED <<_session_cost_in_cents, _stream>>
    /\ UNCHANGED <<threadObjs, threads, current, nameDicts, attLists,
                   metaDicts, cmd, ncmds, file, last_path>>
    /\ UNCHANGED <<storeVars, serialVars, rangeVars, macroVars, formatVars,
                   paramVars, renderVars>>

\* the shell with send in its steps and the commands that change the
\* messages of the current thread or leave it
NextWorker ==
    \/ submit
    \/ _worker
    \/ complete
    \/ create
    \/ _await_future_interruptible
    \/ KeyboardInterrupt
    \/ do_user
    \/ do_pop
    \/ do_clear
    \/ do_thread

WorkerSpec == InitShell /\ [][NextWorker]_vars

\* complete runs on thread t and has not converted all of its messages
Reading(t) ==
    \E k \in DOMAIN _future_executor :
        /\ _future_executor[k].state = "running"
        /\ _future_executor[k].thread = t

\* C32: in every interleaving of the shell and the worker, a send that was
\* cancelled while its call ran included, no step changes the messages of
\* a thread while complete is still reading that thread
C32_NoMutationWhileReading ==
    [][\A t \in DOMAIN threadObjs :
            Reading(t) => threadObjs'[t].messages = threadObjs[t].messages]_vars

\* a cancelled send whose call still reads the current thread, with the
\* shell back at the prompt
CancelledWhileReading ==
    /\ session = "running"
    /\ cmd = "send"
    /\ cmdArg = "cancelled"
    /\ Reading(current)
    /\ CurrentThread.messages # <<>>

====
